---- MODULE Spec2Model ----
(***************************************************************************)
(* A model of the websocketz connection: the connection state (closed,     *)
(* auto-pong, auto-close), the fragments state (the fragmented message in  *)
(* progress and the fragments buffer), the auto-responder, the message     *)
(* reassembler and the send operations.                                    *)
(*                                                                         *)
(* One step of the model is one call of ReadAutoCaller::call (one turn of  *)
(* the next! loop), one call of send, one call of send_fragmented, or one  *)
(* call of a configuration method.  The frames the transport delivers are  *)
(* inputs: frames as the frame decoder returns them (a control frame is    *)
(* final and at most 125 bytes long).  The frames written to the transport *)
(* by a step are recorded in `written`.                                    *)
(*                                                                         *)
(* The frame codec is modelled on bytes, apart from the connection:        *)
(* SpecDecode feeds the bytes of a stream to Decoder::decode in pieces,    *)
(* SpecEncode calls Encoder<Frame>::encode once; SpecClose hands the       *)
(* connection Close frames with every kind of close code.                  *)
(***************************************************************************)
EXTENDS Integers, Sequences, FiniteSets, TLC

VARIABLES
    state,            \* ConnectionState: closed, auto.pong, auto.close
    fragments_state,  \* FragmentsState: fragmented, fragments_buffer
    last,             \* the operation of the last step and its inputs
    result,           \* what the last step returned
    written,          \* the frames the last step wrote to the transport
    closeSent,        \* history: a Close frame has been written to the transport
    received,         \* history: the fragments received of the message in progress
    write_half,       \* the write half after split_with: <<>> or <<its state>>
    transport,        \* history: the frames written to the transport, by call
    handshake,        \* the opening handshake: the peer's message and the call's outcome
    codec,            \* FramesCodec: unmask, mask, decode_state
    writer,           \* the codec of the write half after split: <<>> or <<codec>>
    stream,           \* the bytes the peer sends
    read_buffer,      \* the bytes of the stream read so far (the decoder's src)
    decoded,          \* what the last call of decode returned
    encoded,          \* the last call of encode: its inputs and what it returned
    header_call       \* the last call of Header::write: its inputs and what it wrote

connVars == <<state, fragments_state, last, result, written, closeSent, received,
              write_half, transport, handshake>>

codecVars == <<codec, writer, stream, read_buffer, decoded, encoded, header_call>>

vars == <<state, fragments_state, last, result, written, closeSent, received,
          write_half, transport, handshake, codec, writer, stream, read_buffer, decoded, encoded,
          header_call>>

(***************************************************************************)
(* Bounds.                                                                 *)
(***************************************************************************)
\* The length of the caller's fragments buffer.
FragCap == 2

(***************************************************************************)
(* Program constants.                                                      *)
(***************************************************************************)
\* The longest payload of a control frame (RFC 6455, 5.5).
MaxControlPayload == 125

(***************************************************************************)
(* Close codes.                                                            *)
(***************************************************************************)
from_u16(code) ==
    CASE code = 1000 -> [tag |-> "Normal", code |-> code]
      [] code = 1001 -> [tag |-> "Away", code |-> code]
      [] code = 1002 -> [tag |-> "Protocol", code |-> code]
      [] code = 1003 -> [tag |-> "Unsupported", code |-> code]
      [] code = 1005 -> [tag |-> "Status", code |-> code]
      [] code = 1006 -> [tag |-> "Abnormal", code |-> code]
      [] code = 1007 -> [tag |-> "Invalid", code |-> code]
      [] code = 1008 -> [tag |-> "Policy", code |-> code]
      [] code = 1009 -> [tag |-> "Size", code |-> code]
      [] code = 1010 -> [tag |-> "Extension", code |-> code]
      [] code = 1011 -> [tag |-> "Error", code |-> code]
      [] code = 1012 -> [tag |-> "Restart", code |-> code]
      [] code = 1013 -> [tag |-> "Again", code |-> code]
      [] code = 1015 -> [tag |-> "Tls", code |-> code]
      [] code >= 1 /\ code <= 999 -> [tag |-> "Bad", code |-> code]
      [] code >= 1016 /\ code <= 2999 -> [tag |-> "Reserved", code |-> code]
      [] code >= 3000 /\ code <= 3999 -> [tag |-> "Iana", code |-> code]
      [] code >= 4000 /\ code <= 4999 -> [tag |-> "Library", code |-> code]
      [] OTHER -> [tag |-> "Bad", code |-> code]

is_allowed(cc) == cc.tag \notin {"Bad", "Reserved", "Status", "Abnormal", "Tls"}

into_u16(cc) ==
    CASE cc.tag = "Normal" -> 1000
      [] cc.tag = "Away" -> 1001
      [] cc.tag = "Protocol" -> 1002
      [] cc.tag = "Unsupported" -> 1003
      [] cc.tag = "Status" -> 1005
      [] cc.tag = "Abnormal" -> 1006
      [] cc.tag = "Invalid" -> 1007
      [] cc.tag = "Policy" -> 1008
      [] cc.tag = "Size" -> 1009
      [] cc.tag = "Extension" -> 1010
      [] cc.tag = "Error" -> 1011
      [] cc.tag = "Restart" -> 1012
      [] cc.tag = "Again" -> 1013
      [] cc.tag = "Tls" -> 1015
      [] OTHER -> cc.code

\* u16::from_be_bytes and u16::to_be_bytes
from_be_bytes(hi, lo) == hi * 256 + lo

to_be_bytes(n) == <<n \div 256, n % 256>>

(***************************************************************************)
(* core::str::from_utf8: whether a byte sequence is well-formed UTF-8.     *)
(***************************************************************************)
IsCont(b) == b >= 128 /\ b <= 191

RECURSIVE from_utf8_ok(_)
from_utf8_ok(s) ==
    IF s = <<>> THEN TRUE
    ELSE LET b == s[1]
             n == Len(s)
         IN CASE b <= 127 -> from_utf8_ok(SubSeq(s, 2, n))
              [] b >= 194 /\ b <= 223 ->
                    /\ n >= 2
                    /\ IsCont(s[2])
                    /\ from_utf8_ok(SubSeq(s, 3, n))
              [] b >= 224 /\ b <= 239 ->
                    /\ n >= 3
                    /\ IsCont(s[2])
                    /\ IsCont(s[3])
                    /\ (b = 224 => s[2] >= 160)
                    /\ (b = 237 => s[2] <= 159)
                    /\ from_utf8_ok(SubSeq(s, 4, n))
              [] b >= 240 /\ b <= 244 ->
                    /\ n >= 4
                    /\ IsCont(s[2])
                    /\ IsCont(s[3])
                    /\ IsCont(s[4])
                    /\ (b = 240 => s[2] >= 144)
                    /\ (b = 244 => s[2] <= 143)
                    /\ from_utf8_ok(SubSeq(s, 5, n))
              [] OTHER -> FALSE

(***************************************************************************)
(* Frames, close frames and messages.                                      *)
(***************************************************************************)
Frame(fin, opcode, payload) == [fin |-> fin, opcode |-> opcode, payload |-> payload]

NoFrame == [fin |-> FALSE, opcode |-> "None", payload |-> <<>>]

\* Option<CloseFrame>: None, or Some(CloseFrame { code, reason })
NoCloseFrame == [some |-> FALSE, code |-> [tag |-> "None", code |-> 0], reason |-> <<>>]

CloseFrame(code, reason) == [some |-> TRUE, code |-> code, reason |-> reason]

no_reason(code) == CloseFrame(code, <<>>)

Text(payload) == [type |-> "Text", payload |-> payload, close |-> NoCloseFrame]

Binary(payload) == [type |-> "Binary", payload |-> payload, close |-> NoCloseFrame]

Ping(payload) == [type |-> "Ping", payload |-> payload, close |-> NoCloseFrame]

Pong(payload) == [type |-> "Pong", payload |-> payload, close |-> NoCloseFrame]

Close(cf) == [type |-> "Close", payload |-> <<>>, close |-> cf]

NoMessage == [type |-> "None", payload |-> <<>>, close |-> NoCloseFrame]

is_close(message) == message.type = "Close"

opcode(message) == message.type

\* Message::write: the payload bytes of the frame that carries the message
write(message) ==
    IF message.type = "Close"
    THEN IF message.close.some
         THEN to_be_bytes(into_u16(message.close.code)) \o message.close.reason
         ELSE <<>>
    ELSE message.payload

\* Encoder<Message>::encode: a message is written as one final frame
encode(message) == Frame(TRUE, opcode(message), write(message))

(***************************************************************************)
(* What a step returns.  ReadAutoCaller::call returns                      *)
(*   Some(Ok(None))      "Continue": nothing to surface, next! reads on    *)
(*   Some(Ok(Some(m)))   "Item":     next! returns the message             *)
(*   Some(Err(e))        "Err":      next! returns the error               *)
(*   None                "Eos":      next! returns end-of-stream           *)
(* and send / send_fragmented return Ok(()) ("Ok") or Err(e) ("Err").      *)
(***************************************************************************)
Continue == [kind |-> "Continue", msg |-> NoMessage, err |-> "None"]

Item(message) == [kind |-> "Item", msg |-> message, err |-> "None"]

Err(e) == [kind |-> "Err", msg |-> NoMessage, err |-> e]

Eos == [kind |-> "Eos", msg |-> NoMessage, err |-> "None"]

Ok == [kind |-> "Ok", msg |-> NoMessage, err |-> "None"]

(***************************************************************************)
(* WebSocketCore::extract_close_frame                                      *)
(***************************************************************************)
\* extract_close_frame, accepting every code CloseCode::from_u16 names
extract_close_frame_any_code(frame) ==
    LET payload == frame.payload
        n == Len(payload)
    IN IF n = 0 THEN [err |-> "None", close |-> NoCloseFrame]
       ELSE IF n = 1 THEN [err |-> "InvalidCloseFrame", close |-> NoCloseFrame]
       ELSE LET code == from_u16(from_be_bytes(payload[1], payload[2]))
                reason == SubSeq(payload, 3, n)
            IN IF code.tag = "Bad"
               THEN [err |-> "InvalidCloseCode", close |-> NoCloseFrame]
               ELSE IF from_utf8_ok(reason)
               THEN [err |-> "None", close |-> CloseFrame(code, reason)]
               ELSE [err |-> "InvalidUTF8", close |-> NoCloseFrame]

extract_close_frame(frame) ==
    LET payload == frame.payload
        n == Len(payload)
    IN IF n = 0 THEN [err |-> "None", close |-> NoCloseFrame]
       ELSE IF n = 1 THEN [err |-> "InvalidCloseFrame", close |-> NoCloseFrame]
       ELSE LET code == from_u16(from_be_bytes(payload[1], payload[2]))
                reason == SubSeq(payload, 3, n)
            IN IF ~is_allowed(code)
               THEN [err |-> "InvalidCloseCode", close |-> NoCloseFrame]
               ELSE IF from_utf8_ok(reason)
               THEN [err |-> "None", close |-> CloseFrame(code, reason)]
               ELSE [err |-> "InvalidUTF8", close |-> NoCloseFrame]

(***************************************************************************)
(* WebSocketCore::auto: the auto-responder's decision for a decoded frame, *)
(* taken on a copy of the connection state.                                *)
(***************************************************************************)
OnFrameSend(message) == [tag |-> "Send", message |-> message, err |-> "None"]

OnFrameNoop == [tag |-> "Noop", message |-> NoMessage, err |-> "None"]

OnFrameErr(e) == [tag |-> "Err", message |-> NoMessage, err |-> e]

\* auto, answering a Ping with an empty Pong
auto_empty_pong(st, frame) ==
    IF st.auto.pong /\ frame.opcode = "Ping"
    THEN OnFrameSend(Pong(<<>>))
    ELSE IF st.auto.close /\ frame.opcode = "Close" /\ ~st.closed
    THEN LET x == extract_close_frame(frame)
         IN IF x.err # "None" THEN OnFrameErr(x.err)
            ELSE IF x.close.some THEN OnFrameSend(Close(x.close))
            ELSE OnFrameSend(Close(no_reason(from_u16(1000))))
    ELSE OnFrameNoop

\* auto, answering every Close with Close(1000, "")
auto_fixed_close(st, frame) ==
    IF st.auto.pong /\ frame.opcode = "Ping"
    THEN OnFrameSend(Pong(frame.payload))
    ELSE IF st.auto.close /\ frame.opcode = "Close" /\ ~st.closed
    THEN LET x == extract_close_frame(frame)
         IN IF x.err # "None" THEN OnFrameErr(x.err)
            ELSE OnFrameSend(Close(no_reason(from_u16(1000))))
    ELSE OnFrameNoop

\* auto, answering a Close also when the connection is already closed
auto_ignoring_closed(st, frame) ==
    IF st.auto.pong /\ frame.opcode = "Ping"
    THEN OnFrameSend(Pong(frame.payload))
    ELSE IF st.auto.close /\ frame.opcode = "Close"
    THEN LET x == extract_close_frame(frame)
         IN IF x.err # "None" THEN OnFrameErr(x.err)
            ELSE IF x.close.some THEN OnFrameSend(Close(x.close))
            ELSE OnFrameSend(Close(no_reason(from_u16(1000))))
    ELSE OnFrameNoop

\* auto, answering a malformed Close with Close(1002)
auto_answering_malformed(st, frame) ==
    IF st.auto.pong /\ frame.opcode = "Ping"
    THEN OnFrameSend(Pong(frame.payload))
    ELSE IF st.auto.close /\ frame.opcode = "Close" /\ ~st.closed
    THEN LET x == extract_close_frame(frame)
         IN IF x.err # "None" THEN OnFrameSend(Close(no_reason(from_u16(1002))))
            ELSE IF x.close.some THEN OnFrameSend(Close(x.close))
            ELSE OnFrameSend(Close(no_reason(from_u16(1000))))
    ELSE OnFrameNoop

auto(st, frame) ==
    IF st.auto.pong /\ frame.opcode = "Ping"
    THEN OnFrameSend(Pong(frame.payload))
    ELSE IF st.auto.close /\ frame.opcode = "Close" /\ ~st.closed
    THEN LET x == extract_close_frame(frame)
         IN IF x.err # "None" THEN OnFrameErr(x.err)
            ELSE IF x.close.some THEN OnFrameSend(Close(x.close))
            ELSE OnFrameSend(Close(no_reason(from_u16(1000))))
    ELSE OnFrameNoop

(***************************************************************************)
(* WebSocketCore::on_frame, branch by branch.  Each branch gives the new   *)
(* fragments state and the value returned.                                 *)
(***************************************************************************)
NoFragmented == [some |-> FALSE, opcode |-> "None", index |-> 0]

Fragmented(op, index) == [some |-> TRUE, opcode |-> op, index |-> index]

\* dst[at+1 .. at+Len(src)] = src (copy_from_slice into a sub-slice)
copy_from_slice(dst, at, src) ==
    [i \in 1..Len(dst) |->
        IF i > at /\ i <= at + Len(src) THEN src[i - at] ELSE dst[i]]

\* on_frame for Text | Binary, without the check for a message in progress
on_frame_data_unchecked(fs, frame) ==
    IF frame.fin
    THEN IF frame.opcode = "Binary"
         THEN [fs |-> fs, res |-> Item(Binary(frame.payload))]
         ELSE IF from_utf8_ok(frame.payload)
         THEN [fs |-> fs, res |-> Item(Text(frame.payload))]
         ELSE [fs |-> fs, res |-> Err("InvalidUTF8")]
    ELSE IF Len(frame.payload) > Len(fs.fragments_buffer)
    THEN [fs |-> fs, res |-> Err("FragmentsBufferTooSmall")]
    ELSE [fs |-> [fragmented |-> Fragmented(frame.opcode, Len(frame.payload)),
                  fragments_buffer |->
                      copy_from_slice(fs.fragments_buffer, 0, frame.payload)],
          res |-> Continue]

\* OpCode::Text | OpCode::Binary
\* on_frame for Text and Binary, handing a fragment that is not final to the
\* caller
on_frame_data_surfacing(fs, frame) ==
    IF frame.fin
    THEN IF fs.fragmented.some
         THEN [fs |-> fs, res |-> Err("InvalidFragment")]
         ELSE IF frame.opcode = "Binary"
         THEN [fs |-> fs, res |-> Item(Binary(frame.payload))]
         ELSE IF from_utf8_ok(frame.payload)
         THEN [fs |-> fs, res |-> Item(Text(frame.payload))]
         ELSE [fs |-> fs, res |-> Err("InvalidUTF8")]
    ELSE IF Len(frame.payload) > Len(fs.fragments_buffer)
    THEN [fs |-> fs, res |-> Err("FragmentsBufferTooSmall")]
    ELSE [fs |-> [fragmented |-> Fragmented(frame.opcode, Len(frame.payload)),
                  fragments_buffer |->
                      copy_from_slice(fs.fragments_buffer, 0, frame.payload)],
          res |-> Item(Binary(frame.payload))]

on_frame_data(fs, frame) ==
    IF frame.fin
    THEN IF fs.fragmented.some
         THEN [fs |-> fs, res |-> Err("InvalidFragment")]
         ELSE IF frame.opcode = "Binary"
         THEN [fs |-> fs, res |-> Item(Binary(frame.payload))]
         ELSE IF from_utf8_ok(frame.payload)
         THEN [fs |-> fs, res |-> Item(Text(frame.payload))]
         ELSE [fs |-> fs, res |-> Err("InvalidUTF8")]
    ELSE IF Len(frame.payload) > Len(fs.fragments_buffer)
    THEN [fs |-> fs, res |-> Err("FragmentsBufferTooSmall")]
    ELSE [fs |-> [fragmented |-> Fragmented(frame.opcode, Len(frame.payload)),
                  fragments_buffer |->
                      copy_from_slice(fs.fragments_buffer, 0, frame.payload)],
          res |-> Continue]

\* on_frame for Continuation, skipping a Continuation that continues nothing
on_frame_continuation_skipping(fs, frame) ==
    IF ~fs.fragmented.some
    THEN [fs |-> fs, res |-> Continue]
    ELSE IF fs.fragmented.index + Len(frame.payload) > Len(fs.fragments_buffer)
    THEN [fs |-> fs, res |-> Err("FragmentsBufferTooSmall")]
    ELSE LET buf == copy_from_slice(fs.fragments_buffer, fs.fragmented.index,
                                    frame.payload)
             index == fs.fragmented.index + Len(frame.payload)
             appended == [fragmented |-> Fragmented(fs.fragmented.opcode, index),
                          fragments_buffer |-> buf]
             done == [fragmented |-> NoFragmented, fragments_buffer |-> buf]
             bytes == SubSeq(buf, 1, index)
         IN IF ~frame.fin THEN [fs |-> appended, res |-> Continue]
            ELSE IF fs.fragmented.opcode = "Text"
            THEN IF from_utf8_ok(bytes)
                 THEN [fs |-> done, res |-> Item(Text(bytes))]
                 ELSE [fs |-> appended, res |-> Err("InvalidUTF8")]
            ELSE [fs |-> done, res |-> Item(Binary(bytes))]

\* on_frame for Continuation, copying every fragment to the start of the buffer
on_frame_continuation_overwriting(fs, frame) ==
    IF ~fs.fragmented.some
    THEN [fs |-> fs, res |-> Err("InvalidContinuationFrame")]
    ELSE IF fs.fragmented.index + Len(frame.payload) > Len(fs.fragments_buffer)
    THEN [fs |-> fs, res |-> Err("FragmentsBufferTooSmall")]
    ELSE LET buf == copy_from_slice(fs.fragments_buffer, 0, frame.payload)
             index == fs.fragmented.index + Len(frame.payload)
             appended == [fragmented |-> Fragmented(fs.fragmented.opcode, index),
                          fragments_buffer |-> buf]
             done == [fragmented |-> NoFragmented, fragments_buffer |-> buf]
             bytes == SubSeq(buf, 1, index)
         IN IF ~frame.fin THEN [fs |-> appended, res |-> Continue]
            ELSE IF fs.fragmented.opcode = "Text"
            THEN IF from_utf8_ok(bytes)
                 THEN [fs |-> done, res |-> Item(Text(bytes))]
                 ELSE [fs |-> appended, res |-> Err("InvalidUTF8")]
            ELSE [fs |-> done, res |-> Item(Binary(bytes))]

\* on_frame for Continuation, comparing the fragment alone with the buffer
on_frame_continuation_unbounded(fs, frame) ==
    IF ~fs.fragmented.some
    THEN [fs |-> fs, res |-> Err("InvalidContinuationFrame")]
    ELSE IF Len(frame.payload) > Len(fs.fragments_buffer)
    THEN [fs |-> fs, res |-> Err("FragmentsBufferTooSmall")]
    ELSE LET buf == copy_from_slice(fs.fragments_buffer, fs.fragmented.index,
                                    frame.payload)
             index == fs.fragmented.index + Len(frame.payload)
             appended == [fragmented |-> Fragmented(fs.fragmented.opcode, index),
                          fragments_buffer |-> buf]
             done == [fragmented |-> NoFragmented, fragments_buffer |-> buf]
             bytes == SubSeq(buf, 1, IF index < Len(buf) THEN index ELSE Len(buf))
         IN IF ~frame.fin THEN [fs |-> appended, res |-> Continue]
            ELSE IF fs.fragmented.opcode = "Text"
            THEN IF from_utf8_ok(bytes)
                 THEN [fs |-> done, res |-> Item(Text(bytes))]
                 ELSE [fs |-> appended, res |-> Err("InvalidUTF8")]
            ELSE [fs |-> done, res |-> Item(Binary(bytes))]

\* on_frame for Continuation, surfacing a Text message without validating it
on_frame_continuation_unvalidated(fs, frame) ==
    IF ~fs.fragmented.some
    THEN [fs |-> fs, res |-> Err("InvalidContinuationFrame")]
    ELSE IF fs.fragmented.index + Len(frame.payload) > Len(fs.fragments_buffer)
    THEN [fs |-> fs, res |-> Err("FragmentsBufferTooSmall")]
    ELSE LET buf == copy_from_slice(fs.fragments_buffer, fs.fragmented.index,
                                    frame.payload)
             index == fs.fragmented.index + Len(frame.payload)
             appended == [fragmented |-> Fragmented(fs.fragmented.opcode, index),
                          fragments_buffer |-> buf]
             done == [fragmented |-> NoFragmented, fragments_buffer |-> buf]
             bytes == SubSeq(buf, 1, index)
         IN IF ~frame.fin THEN [fs |-> appended, res |-> Continue]
            ELSE IF fs.fragmented.opcode = "Text"
            THEN [fs |-> done, res |-> Item(Text(bytes))]
            ELSE [fs |-> done, res |-> Item(Binary(bytes))]

\* OpCode::Continuation
on_frame_continuation(fs, frame) ==
    IF ~fs.fragmented.some
    THEN [fs |-> fs, res |-> Err("InvalidContinuationFrame")]
    ELSE IF fs.fragmented.index + Len(frame.payload) > Len(fs.fragments_buffer)
    THEN [fs |-> fs, res |-> Err("FragmentsBufferTooSmall")]
    ELSE LET buf == copy_from_slice(fs.fragments_buffer, fs.fragmented.index,
                                    frame.payload)
             index == fs.fragmented.index + Len(frame.payload)
             appended == [fragmented |-> Fragmented(fs.fragmented.opcode, index),
                          fragments_buffer |-> buf]
             done == [fragmented |-> NoFragmented, fragments_buffer |-> buf]
             bytes == SubSeq(buf, 1, index)
         IN IF ~frame.fin THEN [fs |-> appended, res |-> Continue]
            ELSE IF fs.fragmented.opcode = "Text"
            THEN IF from_utf8_ok(bytes)
                 THEN [fs |-> done, res |-> Item(Text(bytes))]
                 ELSE [fs |-> appended, res |-> Err("InvalidUTF8")]
            ELSE [fs |-> done, res |-> Item(Binary(bytes))]

\* OpCode::Close
on_frame_close(fs, frame) ==
    LET x == extract_close_frame(frame)
    IN IF x.err # "None" THEN [fs |-> fs, res |-> Err(x.err)]
       ELSE [fs |-> fs, res |-> Item(Close(x.close))]

on_frame(fs, frame) ==
    CASE frame.opcode \in {"Text", "Binary"} -> on_frame_data(fs, frame)
      [] frame.opcode = "Continuation" -> on_frame_continuation(fs, frame)
      [] frame.opcode = "Close" -> on_frame_close(fs, frame)
      [] frame.opcode = "Ping" -> [fs |-> fs, res |-> Item(Ping(frame.payload))]
      [] frame.opcode = "Pong" -> [fs |-> fs, res |-> Item(Pong(frame.payload))]

(***************************************************************************)
(* ReadAutoCaller::call: one turn of the next! loop of an unsplit          *)
(* connection.  `ev` is what framez::functions::maybe_next returned: a     *)
(* decoded frame, "partial" (more bytes are needed), "decode_err" or       *)
(* "eof"; `io` tells whether the transport accepts the write of an         *)
(* automatic reply.                                                        *)
(***************************************************************************)
ReadAutoCaller_call(st, fs, ev, frame, io) ==
    CASE ev = "partial" ->
            [state |-> st, fs |-> fs, res |-> Continue, written |-> <<>>]
      [] ev = "decode_err" ->
            [state |-> st, fs |-> fs, res |-> Err("ReadFrame"), written |-> <<>>]
      [] ev = "eof" ->
            [state |-> st, fs |-> fs, res |-> Eos, written |-> <<>>]
      [] OTHER ->
            LET a == auto(st, frame)
            IN CASE a.tag = "Err" ->
                       [state |-> st, fs |-> fs, res |-> Err(a.err), written |-> <<>>]
                 [] a.tag = "Send" ->
                       LET st2 == [st EXCEPT !.closed = is_close(a.message)]
                       IN IF io
                          THEN [state |-> st2, fs |-> fs,
                                res |-> IF st2.closed THEN Eos ELSE Continue,
                                written |-> <<encode(a.message)>>]
                          ELSE [state |-> st2, fs |-> fs,
                                res |-> Err("WriteFrame"), written |-> <<>>]
                 [] OTHER ->
                       LET r == on_frame(fs, frame)
                       IN [state |-> st, fs |-> r.fs, res |-> r.res, written |-> <<>>]

(***************************************************************************)
(* ReadCaller::call: one turn of the next! loop of a read half.  It has no *)
(* auto-responder and no writer, and leaves the connection state alone.    *)
(***************************************************************************)
\* ReadCaller::call, answering as the unsplit connection's caller does
ReadCaller_call_answering(st, fs, ev, frame) ==
    ReadAutoCaller_call(st, fs, ev, frame, TRUE)

ReadCaller_call(st, fs, ev, frame) ==
    CASE ev = "partial" ->
            [state |-> st, fs |-> fs, res |-> Continue, written |-> <<>>]
      [] ev = "decode_err" ->
            [state |-> st, fs |-> fs, res |-> Err("ReadFrame"), written |-> <<>>]
      [] ev = "eof" ->
            [state |-> st, fs |-> fs, res |-> Eos, written |-> <<>>]
      [] OTHER ->
            LET r == on_frame(fs, frame)
            IN [state |-> st, fs |-> r.fs, res |-> r.res, written |-> <<>>]

(***************************************************************************)
(* functions::send                                                         *)
(***************************************************************************)
send(st, message, io) ==
    IF st.closed
    THEN [state |-> st, res |-> Err("ConnectionClosed"), written |-> <<>>]
    ELSE LET st2 == [st EXCEPT !.closed = is_close(message)]
         IN IF io
            THEN [state |-> st2, res |-> Ok, written |-> <<encode(message)>>]
            ELSE [state |-> st2, res |-> Err("WriteFrame"), written |-> <<>>]

(***************************************************************************)
(* Message::fragments and FragmentsIterator                                *)
(***************************************************************************)
Min(a, b) == IF a < b THEN a ELSE b

\* Iter::next, giving every frame the message's opcode
RECURSIVE Iter_keeping_opcode(_, _, _, _)
Iter_keeping_opcode(data, op, fragment_size, pos) ==
    IF pos >= Len(data) THEN <<>>
    ELSE LET start == pos
             end == Min(pos + fragment_size, Len(data))
             fin == (end = Len(data))
         IN <<Frame(fin, op, SubSeq(data, start + 1, end))>>
                \o Iter_keeping_opcode(data, op, fragment_size, end)

\* Iter::next, called until it returns None
RECURSIVE Iter(_, _, _, _)
Iter(data, op, fragment_size, pos) ==
    IF pos >= Len(data) THEN <<>>
    ELSE LET start == pos
             end == Min(pos + fragment_size, Len(data))
             fin == (end = Len(data))
             oc == IF start = 0 THEN op ELSE "Continuation"
         IN <<Frame(fin, oc, SubSeq(data, start + 1, end))>>
                \o Iter(data, op, fragment_size, end)

FragmentsIterator(op, data, fragment_size) ==
    IF Len(data) = 0 THEN <<Frame(TRUE, op, <<>>)>>
    ELSE Iter(data, op, fragment_size, 0)

\* Message::fragments, looking at the kind of message first
fragments_kind_first(message, fragment_size) ==
    IF message.type \notin {"Text", "Binary"}
    THEN [err |-> "CanNotBeFragmented", frames |-> <<>>]
    ELSE IF fragment_size < 1 THEN [err |-> "InvalidFragmentSize", frames |-> <<>>]
    ELSE [err |-> "None",
          frames |-> FragmentsIterator(message.type, message.payload, fragment_size)]

fragments(message, fragment_size) ==
    IF fragment_size < 1 THEN [err |-> "InvalidFragmentSize", frames |-> <<>>]
    ELSE IF message.type \in {"Text", "Binary"}
    THEN [err |-> "None",
          frames |-> FragmentsIterator(message.type, message.payload, fragment_size)]
    ELSE [err |-> "CanNotBeFragmented", frames |-> <<>>]

\* functions::send_fragmented, writing the last fragment first
send_fragmented_reversed(st, message, fragment_size, accepted) ==
    IF st.closed
    THEN [state |-> st, res |-> Err("ConnectionClosed"), written |-> <<>>]
    ELSE LET f == fragments(message, fragment_size)
             n == Len(f.frames)
             back == [i \in 1..n |-> f.frames[n + 1 - i]]
         IN IF f.err # "None"
            THEN [state |-> st, res |-> Err(f.err), written |-> <<>>]
            ELSE IF accepted >= n
            THEN [state |-> st, res |-> Ok, written |-> back]
            ELSE [state |-> st, res |-> Err("WriteFrame"),
                  written |-> SubSeq(back, 1, accepted)]

(***************************************************************************)
(* functions::send_fragmented.  `accepted` is the number of frames the     *)
(* transport accepts before a write fails.                                 *)
(***************************************************************************)
send_fragmented(st, message, fragment_size, accepted) ==
    IF st.closed
    THEN [state |-> st, res |-> Err("ConnectionClosed"), written |-> <<>>]
    ELSE LET f == fragments(message, fragment_size)
         IN IF f.err # "None"
            THEN [state |-> st, res |-> Err(f.err), written |-> <<>>]
            ELSE IF accepted >= Len(f.frames)
            THEN [state |-> st, res |-> Ok, written |-> f.frames]
            ELSE [state |-> st, res |-> Err("WriteFrame"),
                  written |-> SubSeq(f.frames, 1, accepted)]

(***************************************************************************)
(* Bytes.                                                                  *)
(***************************************************************************)
\* bit i of the byte b (bit 7 is the most significant)
Bit(b, i) == (b \div (2 ^ i)) % 2

RECURSIVE xor_from(_, _, _)
xor_from(a, b, i) ==
    IF i > 7 THEN 0
    ELSE ((Bit(a, i) + Bit(b, i)) % 2) * (2 ^ i) + xor_from(a, b, i + 1)

\* a ^ b on u8
xor(a, b) == xor_from(a, b, 0)

\* crate::mask::unmask: payload[i] ^= mask[i mod 4], in place
unmask(payload, mask) ==
    [i \in 1..Len(payload) |-> xor(payload[i], mask[((i - 1) % 4) + 1])]

\* u16::from_be_bytes, u64::from_be_bytes
RECURSIVE from_be(_)
from_be(bytes) ==
    IF bytes = <<>> THEN 0
    ELSE from_be(SubSeq(bytes, 1, Len(bytes) - 1)) * 256 + bytes[Len(bytes)]

\* (n as u16).to_be_bytes(), (n as u64).to_be_bytes(): n in `width` bytes
RECURSIVE to_be(_, _)
to_be(n, width) ==
    IF width = 0 THEN <<>>
    ELSE Append(to_be(n \div 256, width - 1), n % 256)

(***************************************************************************)
(* OpCode.                                                                 *)
(***************************************************************************)
\* OpCode::try_from(u8); "Invalid" stands for Err(InvalidOpCode)
OpCode_try_from(value) ==
    CASE value = 0 -> "Continuation"
      [] value = 1 -> "Text"
      [] value = 2 -> "Binary"
      [] value = 8 -> "Close"
      [] value = 9 -> "Ping"
      [] value = 10 -> "Pong"
      [] OTHER -> "Invalid"

\* opcode as u8
OpCode_as_u8(op) ==
    CASE op = "Continuation" -> 0
      [] op = "Text" -> 1
      [] op = "Binary" -> 2
      [] op = "Close" -> 8
      [] op = "Ping" -> 9
      [] op = "Pong" -> 10

is_control(op) == op \in {"Close", "Ping", "Pong"}

(***************************************************************************)
(* FramesCodec.                                                            *)
(***************************************************************************)
MIN_HEADER_SIZE == 2

DecodeInit == [tag |-> "Init"]

DecodedHeader(fin, op, masked, length_code, extra, min_src_len) ==
    [tag |-> "DecodedHeader", fin |-> fin, opcode |-> op, masked |-> masked,
     length_code |-> length_code, extra |-> extra, min_src_len |-> min_src_len]

\* mask is <<>> for None and the four key bytes for Some
DecodedPayloadLength(fin, op, mask, payload_len, min_src_len) ==
    [tag |-> "DecodedPayloadLength", fin |-> fin, opcode |-> op, mask |-> mask,
     payload_len |-> payload_len, min_src_len |-> min_src_len]

FramesCodec_new == [unmask |-> FALSE, mask |-> FALSE, decode_state |-> DecodeInit]

set_unmask(c, b) == [c EXCEPT !.unmask = b]

set_mask(c, b) == [c EXCEPT !.mask = b]

is_client(c) == c.mask /\ ~c.unmask

is_server(c) == c.unmask /\ ~c.mask

\* WebSocketCore::client: the codec of a client endpoint masks what it writes
WebSocketCore_client == set_unmask(set_mask(FramesCodec_new, TRUE), FALSE)

\* WebSocketCore::server: the codec of a server endpoint unmasks what it reads
WebSocketCore_server == set_unmask(set_mask(FramesCodec_new, FALSE), TRUE)

\* split, the writer's codec being a new one
split_new_writer(c) ==
    <<[unmask |-> c.unmask, mask |-> c.mask, decode_state |-> c.decode_state],
      FramesCodec_new>>

\* FramesCodec::split: <<the reader's codec, the writer's codec>>
split(c) ==
    <<[unmask |-> c.unmask, mask |-> c.mask, decode_state |-> c.decode_state],
      [unmask |-> c.unmask, mask |-> c.mask, decode_state |-> DecodeInit]>>

(***************************************************************************)
(* Decoder::decode.  A call returns Ok(None) ("None"), Ok(Some((frame,     *)
(* consumed))) ("Frame") or Err(e) ("Err"); it may change the codec's      *)
(* decode state and, when it unmasks, the bytes of src.  Each arm of the   *)
(* match gives the codec, src, the value returned if the arm returns, and  *)
(* `again` when the loop goes round.                                       *)
(***************************************************************************)
NotCalled == [kind |-> "NotCalled", frame |-> NoFrame, consumed |-> 0, err |-> "None"]

RetNone == [kind |-> "None", frame |-> NoFrame, consumed |-> 0, err |-> "None"]

RetFrame(frame, consumed) ==
    [kind |-> "Frame", frame |-> frame, consumed |-> consumed, err |-> "None"]

RetErr(e) == [kind |-> "Err", frame |-> NoFrame, consumed |-> 0, err |-> e]

Return(c, s, ret) == [codec |-> c, src |-> s, ret |-> ret, again |-> FALSE]

Again(c, s) == [codec |-> c, src |-> s, ret |-> NotCalled, again |-> TRUE]

\* Init, without the server's check of the mask bit
decode_init_any_mask(c, s) ==
    IF Len(s) < MIN_HEADER_SIZE THEN Return(c, s, RetNone)
    ELSE LET fin == Bit(s[1], 7) = 1
             rsv1 == Bit(s[1], 6) = 1
             rsv2 == Bit(s[1], 5) = 1
             rsv3 == Bit(s[1], 4) = 1
             op == OpCode_try_from(s[1] % 16)
             masked == Bit(s[2], 7) = 1
             length_code == s[2] % 128
             extra == CASE length_code = 126 -> 2
                        [] length_code = 127 -> 8
                        [] OTHER -> 0
             min_src_len == MIN_HEADER_SIZE + extra + (IF masked THEN 4 ELSE 0)
         IN IF rsv1 \/ rsv2 \/ rsv3 THEN Return(c, s, RetErr("ReservedBitsNotZero"))
            ELSE IF op = "Invalid" THEN Return(c, s, RetErr("InvalidOpCode"))
            ELSE IF is_client(c) /\ masked
            THEN Return(c, s, RetErr("MaskedFrameFromServer"))
            ELSE Again([c EXCEPT !.decode_state =
                           DecodedHeader(fin, op, masked, length_code, extra,
                                         min_src_len)], s)

\* DecodeState::Init
decode_init(c, s) ==
    IF Len(s) < MIN_HEADER_SIZE THEN Return(c, s, RetNone)
    ELSE LET fin == Bit(s[1], 7) = 1
             rsv1 == Bit(s[1], 6) = 1
             rsv2 == Bit(s[1], 5) = 1
             rsv3 == Bit(s[1], 4) = 1
             op == OpCode_try_from(s[1] % 16)
             masked == Bit(s[2], 7) = 1
             length_code == s[2] % 128
             extra == CASE length_code = 126 -> 2
                        [] length_code = 127 -> 8
                        [] OTHER -> 0
             min_src_len == MIN_HEADER_SIZE + extra + (IF masked THEN 4 ELSE 0)
         IN IF rsv1 \/ rsv2 \/ rsv3 THEN Return(c, s, RetErr("ReservedBitsNotZero"))
            ELSE IF op = "Invalid" THEN Return(c, s, RetErr("InvalidOpCode"))
            ELSE IF is_server(c) /\ ~masked
            THEN Return(c, s, RetErr("UnmaskedFrameFromClient"))
            ELSE IF is_client(c) /\ masked
            THEN Return(c, s, RetErr("MaskedFrameFromServer"))
            ELSE Again([c EXCEPT !.decode_state =
                           DecodedHeader(fin, op, masked, length_code, extra,
                                         min_src_len)], s)

\* DecodedHeader, letting a control frame of 126 bytes through
decode_header_lenient(c, s) ==
    LET d == c.decode_state
    IN IF Len(s) < d.min_src_len THEN Return(c, s, RetNone)
       ELSE LET payload_len ==
                    IF d.extra = 0 THEN d.length_code
                    ELSE from_be(SubSeq(s, 3, 2 + d.extra))
                mask == IF d.masked THEN SubSeq(s, 3 + d.extra, 6 + d.extra)
                        ELSE <<>>
            IN IF is_control(d.opcode) /\ ~d.fin
               THEN Return(c, s, RetErr("ControlFrameFragmented"))
               ELSE IF is_control(d.opcode) /\ payload_len > MaxControlPayload + 1
               THEN Return(c, s, RetErr("ControlFrameTooLarge"))
               ELSE Again([c EXCEPT !.decode_state =
                              DecodedPayloadLength(d.fin, d.opcode, mask, payload_len,
                                                   d.min_src_len + payload_len)], s)

\* DecodeState::DecodedHeader
decode_header(c, s) ==
    LET d == c.decode_state
    IN IF Len(s) < d.min_src_len THEN Return(c, s, RetNone)
       ELSE LET payload_len ==
                    IF d.extra = 0 THEN d.length_code
                    ELSE from_be(SubSeq(s, 3, 2 + d.extra))
                mask == IF d.masked THEN SubSeq(s, 3 + d.extra, 6 + d.extra)
                        ELSE <<>>
            IN IF is_control(d.opcode) /\ ~d.fin
               THEN Return(c, s, RetErr("ControlFrameFragmented"))
               ELSE IF is_control(d.opcode) /\ payload_len > MaxControlPayload
               THEN Return(c, s, RetErr("ControlFrameTooLarge"))
               ELSE Again([c EXCEPT !.decode_state =
                              DecodedPayloadLength(d.fin, d.opcode, mask, payload_len,
                                                   d.min_src_len + payload_len)], s)

\* DecodedPayloadLength, leaving the decode state as it is
decode_payload_keeping_state(c, s) ==
    LET d == c.decode_state
    IN IF Len(s) < d.min_src_len THEN Return(c, s, RetNone)
       ELSE LET start == d.min_src_len - d.payload_len
                end == d.min_src_len
                payload == SubSeq(s, start + 1, end)
                unmasked == IF is_server(c) /\ d.mask # <<>>
                            THEN unmask(payload, d.mask)
                            ELSE payload
            IN Return(c,
                      SubSeq(s, 1, start) \o unmasked \o SubSeq(s, end + 1, Len(s)),
                      RetFrame(Frame(d.fin, d.opcode, unmasked), d.min_src_len))

\* DecodeState::DecodedPayloadLength
decode_payload(c, s) ==
    LET d == c.decode_state
    IN IF Len(s) < d.min_src_len THEN Return(c, s, RetNone)
       ELSE LET start == d.min_src_len - d.payload_len
                end == d.min_src_len
                payload == SubSeq(s, start + 1, end)
                unmasked == IF is_server(c) /\ d.mask # <<>>
                            THEN unmask(payload, d.mask)
                            ELSE payload
            IN Return([c EXCEPT !.decode_state = DecodeInit],
                      SubSeq(s, 1, start) \o unmasked \o SubSeq(s, end + 1, Len(s)),
                      RetFrame(Frame(d.fin, d.opcode, unmasked), d.min_src_len))

RECURSIVE decode(_, _)
decode(c, s) ==
    LET r == CASE c.decode_state.tag = "Init" -> decode_init(c, s)
               [] c.decode_state.tag = "DecodedHeader" -> decode_header(c, s)
               [] c.decode_state.tag = "DecodedPayloadLength" -> decode_payload(c, s)
    IN IF r.again THEN decode(r.codec, r.src) ELSE r

(***************************************************************************)
(* Decoder::decode with the width of usize kept.  A usize or u64 is four   *)
(* limbs of 16 bits, the most significant first; on a 32-bit target the    *)
(* two upper limbs of a usize are 0.  `width` is the pointer width of the  *)
(* target and `build` says whether the arithmetic is checked ("debug":     *)
(* an overflow panics) or wraps ("release").  A panic is the outcome       *)
(* "Panic".                                                                *)
(***************************************************************************)
Limb == 65536

Widths == {32, 64}

Builds == {"debug", "release"}

\* n as usize, for n below 2^16
usize_from(n) == <<0, 0, 0, n>>

\* u64::from_be_bytes
u64_from_be_bytes(bytes) ==
    <<from_be_bytes(bytes[1], bytes[2]), from_be_bytes(bytes[3], bytes[4]),
      from_be_bytes(bytes[5], bytes[6]), from_be_bytes(bytes[7], bytes[8])>>

\* usize::try_from(u64) is Ok
usize_try_from_ok(x, width) == width = 64 \/ (x[1] = 0 /\ x[2] = 0)

\* x < y
usize_lt(x, y) ==
    \E i \in 1..4 : x[i] < y[i] /\ \A j \in 1..(i - 1) : x[j] = y[j]

\* x + y on usize: the wrapped value, and whether the sum overflowed
usize_add(x, y, width) ==
    LET s4 == x[4] + y[4]
        s3 == x[3] + y[3] + (s4 \div Limb)
        s2 == x[2] + y[2] + (s3 \div Limb)
        s1 == x[1] + y[1] + (s2 \div Limb)
    IN IF width = 64
       THEN [value |-> <<s1 % Limb, s2 % Limb, s3 % Limb, s4 % Limb>>,
             overflow |-> s1 >= Limb]
       ELSE [value |-> <<0, 0, s3 % Limb, s4 % Limb>>, overflow |-> s3 >= Limb]

\* x - y on usize: the wrapped value, and whether the difference overflowed
usize_sub(x, y, width) ==
    LET d4 == x[4] - y[4]
        d3 == x[3] - y[3] - (IF d4 < 0 THEN 1 ELSE 0)
        d2 == x[2] - y[2] - (IF d3 < 0 THEN 1 ELSE 0)
        d1 == x[1] - y[1] - (IF d2 < 0 THEN 1 ELSE 0)
    IN IF width = 64
       THEN [value |-> <<(d1 + Limb) % Limb, (d2 + Limb) % Limb,
                         (d3 + Limb) % Limb, (d4 + Limb) % Limb>>,
             overflow |-> d1 < 0]
       ELSE [value |-> <<0, 0, (d3 + Limb) % Limb, (d4 + Limb) % Limb>>,
             overflow |-> d3 < 0]

RetPanic(e) == [kind |-> "Panic", frame |-> NoFrame, consumed |-> 0, err |-> e]

\* DecodeState::DecodedHeader
decode_header_word(c, s, width, build) ==
    LET d == c.decode_state
    IN IF Len(s) < d.min_src_len THEN Return(c, s, RetNone)
       ELSE LET length == IF d.extra = 0 THEN usize_from(d.length_code)
                          ELSE IF d.extra = 2 THEN usize_from(from_be(SubSeq(s, 3, 4)))
                          ELSE u64_from_be_bytes(SubSeq(s, 3, 10))
                mask == IF d.masked THEN SubSeq(s, 3 + d.extra, 6 + d.extra)
                        ELSE <<>>
                sum == usize_add(usize_from(d.min_src_len), length, width)
            IN IF d.extra = 8 /\ ~usize_try_from_ok(length, width)
               THEN Return(c, s, RetErr("PayloadTooLarge"))
               ELSE IF is_control(d.opcode) /\ ~d.fin
               THEN Return(c, s, RetErr("ControlFrameFragmented"))
               ELSE IF is_control(d.opcode)
                       /\ usize_lt(usize_from(MaxControlPayload), length)
               THEN Return(c, s, RetErr("ControlFrameTooLarge"))
               ELSE IF sum.overflow /\ build = "debug"
               THEN Return(c, s, RetPanic("attempt to add with overflow"))
               ELSE Again([c EXCEPT !.decode_state =
                              DecodedPayloadLength(d.fin, d.opcode, mask, length,
                                                   sum.value)], s)

\* DecodeState::DecodedPayloadLength
decode_payload_word(c, s, width, build) ==
    LET d == c.decode_state
    IN IF usize_lt(usize_from(Len(s)), d.min_src_len) THEN Return(c, s, RetNone)
       ELSE LET diff == usize_sub(d.min_src_len, d.payload_len, width)
                start == diff.value
                end == d.min_src_len
                payload == SubSeq(s, start[4] + 1, end[4])
                unmasked == IF is_server(c) /\ d.mask # <<>>
                            THEN unmask(payload, d.mask)
                            ELSE payload
            IN IF diff.overflow /\ build = "debug"
               THEN Return(c, s, RetPanic("attempt to subtract with overflow"))
               ELSE IF usize_lt(end, start)
               THEN Return(c, s, RetPanic("slice index starts after its end"))
               ELSE Return([c EXCEPT !.decode_state = DecodeInit],
                           SubSeq(s, 1, start[4]) \o unmasked
                               \o SubSeq(s, end[4] + 1, Len(s)),
                           RetFrame(Frame(d.fin, d.opcode, unmasked), end[4]))

RECURSIVE decode_word(_, _, _, _)
decode_word(c, s, width, build) ==
    LET r == CASE c.decode_state.tag = "Init" -> decode_init(c, s)
               [] c.decode_state.tag = "DecodedHeader" ->
                      decode_header_word(c, s, width, build)
               [] c.decode_state.tag = "DecodedPayloadLength" ->
                      decode_payload_word(c, s, width, build)
    IN IF r.again THEN decode_word(r.codec, r.src, width, build) ELSE r

(***************************************************************************)
(* Header::write and FramesCodec::encode_inner.  `key` is what the rng     *)
(* returns, `dst_len` the length of the destination; the value is the      *)
(* bytes written, or BufferTooSmall.                                       *)
(***************************************************************************)
\* Header::write, writing a length of 126 inline
Header_write_inline126(fin, op, payload_len, dst_len) ==
    LET b0 == (IF fin THEN 128 ELSE 0) + OpCode_as_u8(op)
    IN IF dst_len < 2 THEN <<>>
       ELSE IF payload_len <= 126 THEN <<b0, payload_len>>
       ELSE IF payload_len < 65536
       THEN IF dst_len < 4 THEN <<>> ELSE <<b0, 126>> \o to_be(payload_len, 2)
       ELSE IF dst_len < 10 THEN <<>> ELSE <<b0, 127>> \o to_be(payload_len, 8)

\* Header::write: the header bytes, or <<>> for None
Header_write(fin, op, payload_len, dst_len) ==
    LET b0 == (IF fin THEN 128 ELSE 0) + OpCode_as_u8(op)
    IN IF dst_len < 2 THEN <<>>
       ELSE IF payload_len < 126 THEN <<b0, payload_len>>
       ELSE IF payload_len < 65536
       THEN IF dst_len < 4 THEN <<>> ELSE <<b0, 126>> \o to_be(payload_len, 2)
       ELSE IF dst_len < 10 THEN <<>> ELSE <<b0, 127>> \o to_be(payload_len, 8)

\* A call of Header::write and what it returned.
Written(fin, op, payload_len, dst_len, bytes) ==
    [called |-> TRUE, fin |-> fin, opcode |-> op, payload_len |-> payload_len,
     dst_len |-> dst_len, bytes |-> bytes]

NotWritten == [Written(FALSE, "Continuation", 0, 0, <<>>) EXCEPT !.called = FALSE]

EncodeOk(bytes) == [ok |-> TRUE, bytes |-> bytes, err |-> "None"]

EncodeErr(e) == [ok |-> FALSE, bytes |-> <<>>, err |-> e]

\* The slices of dst that Header::write indexes, as <<start, end>> pairs in
\* the order of the code (dst[i] is dst[i..i + 1]).
Header_write_slices(payload_len, dst_len) ==
    IF dst_len < 2 THEN <<>>
    ELSE IF payload_len < 126 THEN <<<<0, 1>>, <<1, 2>>>>
    ELSE IF payload_len < 65536
    THEN IF dst_len < 4 THEN <<<<0, 1>>>> ELSE <<<<0, 1>>, <<1, 2>>, <<2, 4>>>>
    ELSE IF dst_len < 10 THEN <<<<0, 1>>>> ELSE <<<<0, 1>>, <<1, 2>>, <<2, 10>>>>

\* The slices of dst that encode_inner and the calls it makes index, up to the
\* point where it returns.
encode_inner_slices(c, payload_len, dst_len) ==
    LET header == Header_write(TRUE, "Binary", payload_len, dst_len)
        head_len == Len(header)
        in_header == Header_write_slices(payload_len, dst_len)
    IN IF header = <<>> THEN in_header
       ELSE IF is_client(c)
       THEN IF head_len + 4 > dst_len THEN in_header
            ELSE LET in_mask == <<<<1, 2>>, <<head_len, head_len + 4>>,
                                  <<head_len + 4, dst_len>>>>
                 IN IF dst_len - (head_len + 4) < payload_len
                    THEN in_header \o in_mask
                    ELSE in_header \o in_mask
                         \o <<<<head_len + 4, head_len + 4 + payload_len>>,
                              <<head_len + 4, head_len + 4 + payload_len>>>>
       ELSE IF dst_len - head_len < payload_len
            THEN in_header \o <<<<head_len, dst_len>>>>
            ELSE in_header
                 \o <<<<head_len, dst_len>>, <<head_len, head_len + payload_len>>>>

\* encode_inner, refusing a destination the frame fills to the last byte
encode_inner_strict(c, fin, op, payload, key, dst_len) ==
    LET header == Header_write(fin, op, Len(payload), dst_len)
    IN IF header = <<>> THEN EncodeErr("BufferTooSmall")
       ELSE IF is_client(c)
       THEN IF Len(header) + 4 > dst_len THEN EncodeErr("BufferTooSmall")
            ELSE IF dst_len - (Len(header) + 4) <= Len(payload)
            THEN EncodeErr("BufferTooSmall")
            ELSE EncodeOk(<<header[1], header[2] + 128>>
                          \o SubSeq(header, 3, Len(header))
                          \o key \o unmask(payload, key))
       ELSE IF dst_len - Len(header) <= Len(payload) THEN EncodeErr("BufferTooSmall")
            ELSE EncodeOk(header \o payload)

\* encode_inner, leaving the mask bit of a masked frame clear
encode_inner_unmarked(c, fin, op, payload, key, dst_len) ==
    LET header == Header_write(fin, op, Len(payload), dst_len)
    IN IF header = <<>> THEN EncodeErr("BufferTooSmall")
       ELSE IF is_client(c)
       THEN IF Len(header) + 4 > dst_len THEN EncodeErr("BufferTooSmall")
            ELSE IF dst_len - (Len(header) + 4) < Len(payload)
            THEN EncodeErr("BufferTooSmall")
            ELSE EncodeOk(header \o key \o unmask(payload, key))
       ELSE IF dst_len - Len(header) < Len(payload) THEN EncodeErr("BufferTooSmall")
            ELSE EncodeOk(header \o payload)

encode_inner(c, fin, op, payload, key, dst_len) ==
    LET header == Header_write(fin, op, Len(payload), dst_len)
    IN IF header = <<>> THEN EncodeErr("BufferTooSmall")
       ELSE IF is_client(c)
       THEN IF Len(header) + 4 > dst_len THEN EncodeErr("BufferTooSmall")
            ELSE IF dst_len - (Len(header) + 4) < Len(payload)
            THEN EncodeErr("BufferTooSmall")
            ELSE EncodeOk(<<header[1], header[2] + 128>>
                          \o SubSeq(header, 3, Len(header))
                          \o key \o unmask(payload, key))
       ELSE IF dst_len - Len(header) < Len(payload) THEN EncodeErr("BufferTooSmall")
            ELSE EncodeOk(header \o payload)

\* Encoder<Frame>::encode
encode_frame(c, frame, key, dst_len) ==
    encode_inner(c, frame.fin, frame.opcode, frame.payload, key, dst_len)

\* A call of encode: its inputs and what it returned.
Encoded(frame, key, dst_len, ret) ==
    [frame |-> frame, key |-> key, dst_len |-> dst_len, ret |-> ret]

NotEncoded == Encoded(NoFrame, <<>>, 0, EncodeErr("None"))

(***************************************************************************)
(* Inputs.                                                                 *)
(***************************************************************************)
\* The longest payload of the short frames of the stream.
MaxWirePayload == 2

\* The masking keys.
Keys == {<<17, 34, 51, 68>>, <<255, 0, 129, 7>>}

\* The bytes a payload of n bytes is made of.
Pattern(n) == [i \in 1..n |-> 64 + (i % 64)]

\* First bytes: the six opcodes final, Continuation, Text, Close and Ping not
\* final, the opcodes 3, 11 and 15, each reserved bit, all three with opcode 3.
HeaderBytes ==
    {128, 129, 130, 136, 137, 138, 0, 1, 8, 9, 131, 139, 143, 193, 161, 145, 243}

\* The bytes of one frame on the wire: first byte, mask bit and length code,
\* extended length, masking key (<<>> when the mask bit is clear), payload.
WireFrame(b0, length_code, ext, key, payload) ==
    <<b0, (IF key = <<>> THEN 0 ELSE 128) + length_code>> \o ext \o key \o payload

\* What may follow a frame: nothing, or the first byte of the next frame.
Tails == {<<>>, <<137>>}

\* Short frames with every first byte, and Binary and Ping frames with the
\* length written in 2 and in 8 bytes, 125 bytes long and 126 bytes long.
Streams ==
    {WireFrame(b0, n, <<>>, key, Pattern(n)) \o tail :
        b0 \in HeaderBytes, n \in 0..MaxWirePayload, key \in Keys \cup {<<>>},
        tail \in Tails}
    \cup {WireFrame(b0, 126, to_be(1, 2), key, Pattern(1)) :
            b0 \in {130, 137}, key \in Keys \cup {<<>>}}
    \cup {WireFrame(b0, 127, to_be(2, 8), key, Pattern(2)) :
            b0 \in {130, 137}, key \in Keys \cup {<<>>}}
    \cup {WireFrame(b0, MaxControlPayload, <<>>, key, Pattern(MaxControlPayload)) :
            b0 \in {130, 137}, key \in Keys \cup {<<>>}}
    \cup {WireFrame(b0, 126, to_be(MaxControlPayload + 1, 2), key,
                    Pattern(MaxControlPayload + 1)) :
            b0 \in {130, 137}, key \in Keys \cup {<<>>}}

\* A payload one byte longer than a control frame may carry.
LongPayload == [i \in 1..(MaxControlPayload + 1) |-> 65]

\* The frames the encoder is given.
TxFrames ==
    {Frame(fin, op, p) :
        fin \in BOOLEAN,
        op \in {"Continuation", "Text", "Binary", "Close", "Ping", "Pong"},
        p \in {<<>>, <<65>>, <<65, 195, 0, 255, 1>>, LongPayload}}

\* The lengths of the destination.
DstLens == {1, 3, 6, 8, 11, 130, 133, 140}

\* A payload one byte longer than the fragments buffer.
BigPayload == [i \in 1..(FragCap + 1) |-> 65]

\* empty, the two bytes of U+00E9 one at a time, and the oversized payload
DataPayloads == {<<>>, <<195>>, <<169>>, BigPayload}

ControlPayloads == {<<>>, <<65>>}

\* none, one byte, 1000, 1005, 1000 "A", 1000 with a reason that is not UTF-8
ClosePayloads == {<<>>, <<3>>, <<3, 232>>, <<3, 237>>, <<3, 232, 65>>, <<3, 232, 195>>}

\* The frames the decoder can return: a control frame is final.
RxFrames ==
    {Frame(fin, op, p) : fin \in BOOLEAN, op \in {"Text", "Binary", "Continuation"},
                         p \in DataPayloads}
    \cup {Frame(TRUE, op, p) : op \in {"Ping", "Pong"}, p \in ControlPayloads}
    \cup {Frame(TRUE, "Close", p) : p \in ClosePayloads}

\* The messages the caller passes to send.
SendMessages ==
    {Text(<<65>>), Binary(<<65, 195>>), Ping(<<65>>), Pong(<<>>),
     Close(NoCloseFrame), Close(CloseFrame(from_u16(1000), <<65>>)),
     Close(no_reason(from_u16(1005))), Ping(LongPayload)}

\* The messages the caller passes to send_fragmented.
FragmentedMessages == {Text(<<65>>), Binary(<<65, 195>>), Ping(<<65>>), Close(NoCloseFrame)}

FragmentSizes == {0, 1, 2}

Last(op, ev, frame, message, size) ==
    [op |-> op, ev |-> ev, frame |-> frame, message |-> message, size |-> size]

HasClose(frames) == \E i \in 1..Len(frames) : frames[i].opcode = "Close"

\* The history of the fragmented message being received, kept from the frames
\* alone: a Text or Binary frame with fin=false that fits the buffer starts it,
\* a Continuation that fits extends it and the final one ends it; a control
\* frame, a final Text or Binary frame and a fragment that does not fit leave
\* it alone.
NoneReceived == [some |-> FALSE, opcode |-> "None", bytes |-> <<>>]

Receive(rcv, ev, frame) ==
    IF ev # "frame" \/ frame.opcode \in {"Ping", "Pong", "Close"} THEN rcv
    ELSE IF frame.opcode \in {"Text", "Binary"}
    THEN IF ~frame.fin /\ Len(frame.payload) <= FragCap
         THEN [some |-> TRUE, opcode |-> frame.opcode, bytes |-> frame.payload]
         ELSE rcv
    ELSE IF rcv.some /\ Len(rcv.bytes) + Len(frame.payload) <= FragCap
         THEN IF frame.fin THEN NoneReceived
              ELSE [rcv EXCEPT !.bytes = rcv.bytes \o frame.payload]
         ELSE rcv

(***************************************************************************)
(* The halves of a split connection.  The read half's ConnectionState is   *)
(* `state` and its FragmentsState `fragments_state`; the write half's      *)
(* ConnectionState is kept in `write_half`, with the closed flag the       *)
(* connection had when split_with was called (history).                    *)
(***************************************************************************)
\* ConnectionState::new
ConnectionState_new == [closed |-> FALSE, auto |-> [pong |-> TRUE, close |-> TRUE]]

Unsplit == <<>>

WriteHalf(st, closed_before) == <<[state |-> st, closed_before |-> closed_before]>>

(***************************************************************************)
(* The opening handshake.  An HTTP message is what httparse parsed: the    *)
(* method and the minor version of a request, the code of a response, and  *)
(* the headers in the order received; names and values are bytes.          *)
(***************************************************************************)
HttpHeader(name, value) == [name |-> name, value |-> value]

Request(method, version, headers) ==
    [method |-> method, version |-> version, code |-> 0, headers |-> headers]

Response(version, code, headers) ==
    [method |-> <<>>, version |-> version, code |-> code, headers |-> headers]

NoHttp == [method |-> <<>>, version |-> 0, code |-> 0, headers |-> <<>>]

\* u8::to_ascii_lowercase
to_ascii_lowercase(b) == IF b >= 65 /\ b <= 90 THEN b + 32 ELSE b

\* <[u8]>::eq_ignore_ascii_case, str::eq_ignore_ascii_case
eq_ignore_ascii_case(a, b) ==
    /\ Len(a) = Len(b)
    /\ \A i \in 1..Len(a) : to_ascii_lowercase(a[i]) = to_ascii_lowercase(b[i])

NoValue == [some |-> FALSE, value |-> <<>>]

\* HeaderExt::header and header_value: the first header of that name
header_value(headers, name) ==
    LET found == {i \in 1..Len(headers) : eq_ignore_ascii_case(headers[i].name, name)}
    IN IF found = {} THEN NoValue
       ELSE [some |-> TRUE,
             value |-> headers[CHOOSE i \in found : \A j \in found : i <= j].value]

\* HeaderExt::header_value_str
header_value_str(headers, name) ==
    LET v == header_value(headers, name)
    IN IF v.some /\ from_utf8_ok(v.value) THEN v ELSE NoValue

\* "GET", "POST", "get"
GET == <<71, 69, 84>>
POST == <<80, 79, 83, 84>>
get == <<103, 101, 116>>

\* the names and values the handshake looks at
upgrade == <<117, 112, 103, 114, 97, 100, 101>>
connection == <<99, 111, 110, 110, 101, 99, 116, 105, 111, 110>>
websocket == <<119, 101, 98, 115, 111, 99, 107, 101, 116>>
sec_websocket_version == <<115, 101, 99, 45, 119, 101, 98, 115, 111, 99, 107, 101, 116, 45, 118, 101, 114, 115, 105, 111, 110>>
sec_websocket_key == <<115, 101, 99, 45, 119, 101, 98, 115, 111, 99, 107, 101, 116, 45, 107, 101, 121>>
sec_websocket_accept == <<115, 101, 99, 45, 119, 101, 98, 115, 111, 99, 107, 101, 116, 45, 97, 99, 99, 101, 112, 116>>
thirteen == <<49, 51>>

\* "AQ==" and "Ag==": keys as generate_sec_key returns them
SecKeys == {<<65, 81, 61, 61>>, <<65, 103, 61, 61>>}

\* generate_sec_accept: base64 of the SHA-1 of the key and the GUID.  The
\* hash is not computed here; a one-to-one function of the key with letters
\* of both cases stands for it.
generate_sec_accept(sec_key) ==
    [i \in 1..Len(sec_key) |-> sec_key[Len(sec_key) + 1 - i]] \o <<120, 89>>

\* What a write to the transport did: all of the message, none of it before
\* the error, or a part of it before the error.
WriteOutcomes == {"ok", "failed", "failed_midway"}

HttpWritten(what, key, outcome) ==
    IF outcome = "failed" THEN <<>>
    ELSE <<[what |-> what, key |-> key, whole |-> (outcome = "ok")]>>

\* What a handshake returned: the result, the inspector's value if it is
\* returned, the number of calls of the inspector, what was written to the
\* transport, and whether a connection is returned.
HandshakeOutcome(res, custom, inspected, http_written) ==
    [res |-> res, custom |-> custom, inspected |-> inspected,
     written |-> http_written, connected |-> (res = Ok)]

NoOutcome == HandshakeOutcome(Err("None"), FALSE, 0, <<>>)

\* client_handshake, comparing the values of upgrade and connection byte
\* for byte
client_handshake_exact_case(wr, ev, response, inspect, sec_key) ==
    LET sent == HttpWritten("request", sec_key, wr)
        fail(e, n) == HandshakeOutcome(Err(e), FALSE, n, sent)
    IN IF wr # "ok" THEN fail("WriteHttp", 0)
       ELSE IF ev = "eof" THEN fail("ConnectionClosed", 0)
       ELSE IF ev = "read_err" THEN fail("ReadHttp", 0)
       ELSE IF ~inspect THEN fail("Other", 1)
       ELSE IF response.code # 101 THEN fail("InvalidStatusCode", 1)
       ELSE IF ~LET v == header_value_str(response.headers, upgrade)
                IN v.some /\ v.value = websocket
       THEN fail("MissingOrInvalidUpgrade", 1)
       ELSE IF ~LET v == header_value_str(response.headers, connection)
                IN v.some /\ v.value = upgrade
       THEN fail("MissingOrInvalidConnection", 1)
       ELSE IF LET v == header_value(response.headers, sec_websocket_accept)
               IN ~v.some \/ v.value # generate_sec_accept(sec_key)
       THEN fail("MissingOrInvalidAccept", 1)
       ELSE HandshakeOutcome(Ok, TRUE, 1, sent)

\* client_handshake, taking the end of the stream for an error of reading
client_handshake_eof_as_error(wr, ev, response, inspect, sec_key) ==
    LET sent == HttpWritten("request", sec_key, wr)
        fail(e, n) == HandshakeOutcome(Err(e), FALSE, n, sent)
    IN IF wr # "ok" THEN fail("WriteHttp", 0)
       ELSE IF ev = "eof" THEN fail("ReadHttp", 0)
       ELSE IF ev = "read_err" THEN fail("ReadHttp", 0)
       ELSE IF ~inspect THEN fail("Other", 1)
       ELSE IF response.code # 101 THEN fail("InvalidStatusCode", 1)
       ELSE IF ~LET v == header_value_str(response.headers, upgrade)
                IN v.some /\ eq_ignore_ascii_case(v.value, websocket)
       THEN fail("MissingOrInvalidUpgrade", 1)
       ELSE IF ~LET v == header_value_str(response.headers, connection)
                IN v.some /\ eq_ignore_ascii_case(v.value, upgrade)
       THEN fail("MissingOrInvalidConnection", 1)
       ELSE IF LET v == header_value(response.headers, sec_websocket_accept)
               IN ~v.some \/ v.value # generate_sec_accept(sec_key)
       THEN fail("MissingOrInvalidAccept", 1)
       ELSE HandshakeOutcome(Ok, TRUE, 1, sent)

\* WebSocketCore::client_handshake.  `wr` is the outcome of writing the
\* request, `ev` what framez::next! returned on the response codec, `inspect`
\* whether on_response returns a value.
client_handshake(wr, ev, response, inspect, sec_key) ==
    LET sent == HttpWritten("request", sec_key, wr)
        fail(e, n) == HandshakeOutcome(Err(e), FALSE, n, sent)
    IN IF wr # "ok" THEN fail("WriteHttp", 0)
       ELSE IF ev = "eof" THEN fail("ConnectionClosed", 0)
       ELSE IF ev = "read_err" THEN fail("ReadHttp", 0)
       ELSE IF ~inspect THEN fail("Other", 1)
       ELSE IF response.code # 101 THEN fail("InvalidStatusCode", 1)
       ELSE IF ~LET v == header_value_str(response.headers, upgrade)
                IN v.some /\ eq_ignore_ascii_case(v.value, websocket)
       THEN fail("MissingOrInvalidUpgrade", 1)
       ELSE IF ~LET v == header_value_str(response.headers, connection)
                IN v.some /\ eq_ignore_ascii_case(v.value, upgrade)
       THEN fail("MissingOrInvalidConnection", 1)
       ELSE IF LET v == header_value(response.headers, sec_websocket_accept)
               IN ~v.some \/ v.value # generate_sec_accept(sec_key)
       THEN fail("MissingOrInvalidAccept", 1)
       ELSE HandshakeOutcome(Ok, TRUE, 1, sent)

\* server_handshake, looking at the version before the method
server_handshake_version_first(wr, ev, request, inspect) ==
    LET fail(e, n) == HandshakeOutcome(Err(e), FALSE, n, <<>>)
        key == header_value(request.headers, sec_websocket_key)
    IN IF ev = "eof" THEN fail("ConnectionClosed", 0)
       ELSE IF ev = "read_err" THEN fail("ReadHttp", 0)
       ELSE IF ~inspect THEN fail("Other", 1)
       ELSE IF request.version < 1 THEN fail("WrongHttpVersion", 1)
       ELSE IF request.method # GET THEN fail("WrongHttpMethod", 1)
       ELSE IF ~LET v == header_value_str(request.headers, sec_websocket_version)
                IN v.some /\ eq_ignore_ascii_case(v.value, thirteen)
       THEN fail("MissingOrInvalidSecVersion", 1)
       ELSE IF ~key.some THEN fail("MissingSecKey", 1)
       ELSE LET sent == HttpWritten("response", generate_sec_accept(key.value), wr)
            IN IF wr # "ok"
               THEN HandshakeOutcome(Err("WriteHttp"), FALSE, 1, sent)
               ELSE HandshakeOutcome(Ok, TRUE, 1, sent)

\* server_handshake, calling the inspector after the checks
server_handshake_inspecting_last(wr, ev, request, inspect) ==
    LET fail(e, n) == HandshakeOutcome(Err(e), FALSE, n, <<>>)
        key == header_value(request.headers, sec_websocket_key)
    IN IF ev = "eof" THEN fail("ConnectionClosed", 0)
       ELSE IF ev = "read_err" THEN fail("ReadHttp", 0)
       ELSE IF request.method # GET THEN fail("WrongHttpMethod", 1)
       ELSE IF request.version < 1 THEN fail("WrongHttpVersion", 1)
       ELSE IF ~LET v == header_value_str(request.headers, sec_websocket_version)
                IN v.some /\ eq_ignore_ascii_case(v.value, thirteen)
       THEN fail("MissingOrInvalidSecVersion", 1)
       ELSE IF ~key.some THEN fail("MissingSecKey", 1)
       ELSE IF ~inspect THEN fail("Other", 1)
       ELSE LET sent == HttpWritten("response", generate_sec_accept(key.value), wr)
            IN IF wr # "ok"
               THEN HandshakeOutcome(Err("WriteHttp"), FALSE, 1, sent)
               ELSE HandshakeOutcome(Ok, TRUE, 1, sent)

\* server_handshake, writing a response before it returns an error
server_handshake_answering_first(wr, ev, request, inspect) ==
    LET fail(e, n) == HandshakeOutcome(Err(e), FALSE, n,
                                       HttpWritten("response", <<>>, wr))
        key == header_value(request.headers, sec_websocket_key)
    IN IF ev = "eof" THEN fail("ConnectionClosed", 0)
       ELSE IF ev = "read_err" THEN fail("ReadHttp", 0)
       ELSE IF ~inspect THEN fail("Other", 1)
       ELSE IF request.method # GET THEN fail("WrongHttpMethod", 1)
       ELSE IF request.version < 1 THEN fail("WrongHttpVersion", 1)
       ELSE IF ~LET v == header_value_str(request.headers, sec_websocket_version)
                IN v.some /\ eq_ignore_ascii_case(v.value, thirteen)
       THEN fail("MissingOrInvalidSecVersion", 1)
       ELSE IF ~key.some THEN fail("MissingSecKey", 1)
       ELSE LET sent == HttpWritten("response", generate_sec_accept(key.value), wr)
            IN IF wr # "ok"
               THEN HandshakeOutcome(Err("WriteHttp"), FALSE, 1, sent)
               ELSE HandshakeOutcome(Ok, TRUE, 1, sent)

\* WebSocketCore::server_handshake.  `ev` is what framez::next! returned on
\* the request codec, `wr` the outcome of writing the response.
server_handshake(wr, ev, request, inspect) ==
    LET fail(e, n) == HandshakeOutcome(Err(e), FALSE, n, <<>>)
        key == header_value(request.headers, sec_websocket_key)
    IN IF ev = "eof" THEN fail("ConnectionClosed", 0)
       ELSE IF ev = "read_err" THEN fail("ReadHttp", 0)
       ELSE IF ~inspect THEN fail("Other", 1)
       ELSE IF request.method # GET THEN fail("WrongHttpMethod", 1)
       ELSE IF request.version < 1 THEN fail("WrongHttpVersion", 1)
       ELSE IF ~LET v == header_value_str(request.headers, sec_websocket_version)
                IN v.some /\ eq_ignore_ascii_case(v.value, thirteen)
       THEN fail("MissingOrInvalidSecVersion", 1)
       ELSE IF ~key.some THEN fail("MissingSecKey", 1)
       ELSE LET sent == HttpWritten("response", generate_sec_accept(key.value), wr)
            IN IF wr # "ok"
               THEN HandshakeOutcome(Err("WriteHttp"), FALSE, 1, sent)
               ELSE HandshakeOutcome(Ok, TRUE, 1, sent)

\* The handshake before it is called and after it returned.
Handshake(phase, role, wr, ev, message, inspect, sec_key, outcome) ==
    [phase |-> phase, role |-> role, wr |-> wr, ev |-> ev, message |-> message,
     inspect |-> inspect, sec_key |-> sec_key, outcome |-> outcome]

\* WebSocket::client and WebSocket::server make a connection without one.
NoHandshake == Handshake("none", "none", "ok", "none", NoHttp, TRUE, <<>>, NoOutcome)

(***************************************************************************)
(* The state after WebSocket::client / WebSocket::server.                  *)
(***************************************************************************)
Constructed ==
    /\ state = [closed |-> FALSE, auto |-> [pong |-> TRUE, close |-> TRUE]]
    /\ fragments_state = [fragmented |-> NoFragmented,
                          fragments_buffer |-> [i \in 1..FragCap |-> 0]]
    /\ last = Last("new", "None", NoFrame, NoMessage, 0)
    /\ result = Ok
    /\ written = <<>>
    /\ closeSent = FALSE
    /\ received = NoneReceived
    /\ write_half = Unsplit
    /\ transport = <<>>

Connected ==
    /\ Constructed
    /\ handshake = NoHandshake

\* No byte has arrived, decode and encode have not been called, no split.
CodecIdle ==
    /\ writer = <<>>
    /\ stream = <<>>
    /\ read_buffer = <<>>
    /\ decoded = NotCalled
    /\ encoded = NotEncoded
    /\ header_call = NotWritten

Init ==
    /\ Connected
    /\ codec = WebSocketCore_server
    /\ CodecIdle

(***************************************************************************)
(* Actions.                                                                *)
(***************************************************************************)
\* Whether a turn of next! on this frame writes an automatic reply.
Replies(st, ev, frame) == ev = "frame" /\ auto(st, frame).tag = "Send"

\* One turn of next! on the unsplit connection.
Next_call ==
    \E ev \in {"frame", "partial", "decode_err", "eof"} :
    \E frame \in (IF ev = "frame" THEN RxFrames ELSE {NoFrame}) :
    \E io \in (IF Replies(state, ev, frame) THEN BOOLEAN ELSE {TRUE}) :
    \E r \in {ReadAutoCaller_call(state, fragments_state, ev, frame, io)} :
        /\ state' = r.state
        /\ fragments_state' = r.fs
        /\ result' = r.res
        /\ written' = r.written
        /\ closeSent' = (closeSent \/ HasClose(r.written))
        /\ last' = Last("next", ev, frame, NoMessage, 0)
        /\ received' = Receive(received, ev, frame)
        /\ UNCHANGED <<write_half, transport, handshake, codecVars>>

Send ==
    \E message \in SendMessages :
    \E io \in (IF state.closed THEN {TRUE} ELSE BOOLEAN) :
    \E r \in {send(state, message, io)} :
        /\ state' = r.state
        /\ result' = r.res
        /\ written' = r.written
        /\ closeSent' = (closeSent \/ HasClose(r.written))
        /\ last' = Last("send", "None", NoFrame, message, 0)
        /\ UNCHANGED <<fragments_state, received>>
        /\ UNCHANGED <<write_half, transport, handshake, codecVars>>

SendFragmented ==
    \E message \in FragmentedMessages :
    \E size \in FragmentSizes :
    \E accepted \in 0..Len(fragments(message, size).frames) :
    \E r \in {send_fragmented(state, message, size, accepted)} :
        /\ state' = r.state
        /\ result' = r.res
        /\ written' = r.written
        /\ closeSent' = (closeSent \/ HasClose(r.written))
        /\ last' = Last("send_fragmented", "None", NoFrame, message, size)
        /\ UNCHANGED <<fragments_state, received>>
        /\ UNCHANGED <<write_half, transport, handshake, codecVars>>

set_auto_pong(st, auto_pong) == [st EXCEPT !.auto.pong = auto_pong]

set_auto_close(st, auto_close) == [st EXCEPT !.auto.close = auto_close]

WithAutoPong ==
    \E b \in BOOLEAN :
        /\ state' = set_auto_pong(state, b)
        /\ result' = Ok
        /\ written' = <<>>
        /\ last' = Last("with_auto_pong", "None", NoFrame, NoMessage, 0)
        /\ UNCHANGED <<fragments_state, closeSent, received>>
        /\ UNCHANGED <<write_half, transport, handshake, codecVars>>

WithAutoClose ==
    \E b \in BOOLEAN :
        /\ state' = set_auto_close(state, b)
        /\ result' = Ok
        /\ written' = <<>>
        /\ last' = Last("with_auto_close", "None", NoFrame, NoMessage, 0)
        /\ UNCHANGED <<fragments_state, closeSent, received>>
        /\ UNCHANGED <<write_half, transport, handshake, codecVars>>

Next ==
    \/ Next_call
    \/ Send
    \/ SendFragmented
    \/ WithAutoPong
    \/ WithAutoClose

Spec == Init /\ [][Next]_vars

(***************************************************************************)
(* The received Close frames: a connection that is handed Close frames     *)
(* only, with codes at both ends of every range CloseCode::from_u16        *)
(* tells apart.                                                            *)
(***************************************************************************)
CloseCodes ==
    {0, 999, 1000, 1003, 1004, 1005, 1006, 1007, 1013, 1014, 1015, 1016, 2999,
     3000, 3999, 4000, 4999, 5000, 65535}

\* no reason, "A", and a reason that is not UTF-8
CloseReasons == {<<>>, <<65>>, <<195>>}

CloseFramePayloads ==
    {<<>>, <<3>>} \cup {to_be_bytes(c) \o r : c \in CloseCodes, r \in CloseReasons}

\* One turn of next! that is handed a Close frame.
ReceiveClose ==
    \E p \in CloseFramePayloads :
    \E frame \in {Frame(TRUE, "Close", p)} :
    \E io \in (IF Replies(state, "frame", frame) THEN BOOLEAN ELSE {TRUE}) :
    \E r \in {ReadAutoCaller_call(state, fragments_state, "frame", frame, io)} :
        /\ state' = r.state
        /\ fragments_state' = r.fs
        /\ result' = r.res
        /\ written' = r.written
        /\ closeSent' = (closeSent \/ HasClose(r.written))
        /\ last' = Last("next", "frame", frame, NoMessage, 0)
        /\ received' = Receive(received, "frame", frame)
        /\ UNCHANGED <<write_half, transport, handshake, codecVars>>

NextClose ==
    \/ ReceiveClose
    \/ WithAutoClose

SpecClose == Init /\ [][NextClose]_vars

(***************************************************************************)
(* The frame decoder on its own: the peer's bytes arrive in pieces and     *)
(* decode is called on what is buffered.                                   *)
(***************************************************************************)
InitDecode ==
    /\ Connected
    /\ codec \in {WebSocketCore_client, WebSocketCore_server}
    /\ stream \in Streams
    /\ writer = <<>>
    /\ read_buffer = <<>>
    /\ decoded = NotCalled
    /\ encoded = NotEncoded
    /\ header_call = NotWritten

\* More bytes of the stream are read into the buffer.
Feed ==
    /\ decoded.kind # "Frame"
    /\ \E k \in 1..(Len(stream) - Len(read_buffer)) :
           read_buffer' =
               read_buffer \o SubSeq(stream, Len(read_buffer) + 1, Len(read_buffer) + k)
    /\ UNCHANGED <<codec, writer, stream, decoded, encoded, header_call>>
    /\ UNCHANGED connVars

\* decode is called on the buffered bytes.
Decode ==
    /\ decoded.kind # "Frame"
    /\ \E r \in {decode(codec, read_buffer)} :
           /\ codec' = r.codec
           /\ read_buffer' = r.src
           /\ decoded' = r.ret
    /\ UNCHANGED <<writer, stream, encoded, header_call>>
    /\ UNCHANGED connVars

\* split_with: the read half keeps the codec, the write half gets its own.
SplitCodec ==
    /\ writer = <<>>
    /\ codec' = split(codec)[1]
    /\ writer' = <<split(codec)[2]>>
    /\ UNCHANGED <<stream, read_buffer, decoded, encoded, header_call>>
    /\ UNCHANGED connVars

NextDecode ==
    \/ Feed
    \/ Decode
    \/ SplitCodec

SpecDecode == InitDecode /\ [][NextDecode]_vars

(***************************************************************************)
(* The frame decoder on frames whose length is written in 8 bytes, with    *)
(* the width of usize kept.                                                *)
(***************************************************************************)
\* The lengths written in the 8 bytes: 0, 3, 2^32 - 11, 2^32 - 1, 2^32, 2^63,
\* 2^64 - 11, 2^64 - 10 and 2^64 - 1.
WordLengths ==
    {<<0, 0, 0, 0, 0, 0, 0, 0>>, <<0, 0, 0, 0, 0, 0, 0, 3>>,
     <<0, 0, 0, 0, 255, 255, 255, 245>>, <<0, 0, 0, 0, 255, 255, 255, 255>>,
     <<0, 0, 0, 1, 0, 0, 0, 0>>, <<128, 0, 0, 0, 0, 0, 0, 0>>,
     <<255, 255, 255, 255, 255, 255, 255, 245>>,
     <<255, 255, 255, 255, 255, 255, 255, 246>>,
     <<255, 255, 255, 255, 255, 255, 255, 255>>}

\* Final Binary and Ping frames with such a length, masked and not, followed
\* by no byte or by three.
WordStreams ==
    {WireFrame(b0, 127, ext, key, tail) :
        b0 \in {130, 137}, ext \in WordLengths, key \in {<<>>, <<1, 2, 3, 4>>},
        tail \in {<<>>, <<7, 8, 9>>}}

InitWord ==
    /\ Connected
    /\ codec \in {WebSocketCore_client, WebSocketCore_server}
    /\ stream \in WordStreams
    /\ writer = <<>>
    /\ read_buffer = <<>>
    /\ decoded = NotCalled
    /\ encoded = NotEncoded
    /\ header_call = NotWritten

\* The target the program was built for: any before the first decode, and
\* the one of the first decode afterwards.
Targets ==
    IF last.op = "decode" THEN {<<last.size, last.ev>>} ELSE Widths \X Builds

\* More bytes of the stream are read into the buffer.
FeedWord ==
    /\ decoded.kind \notin {"Frame", "Err", "Panic"}
    /\ \E k \in 1..(Len(stream) - Len(read_buffer)) :
           read_buffer' =
               read_buffer \o SubSeq(stream, Len(read_buffer) + 1, Len(read_buffer) + k)
    /\ UNCHANGED <<codec, writer, stream, decoded, encoded, header_call>>
    /\ UNCHANGED connVars

\* decode is called on the buffered bytes.
DecodeWord ==
    /\ decoded.kind \notin {"Frame", "Err", "Panic"}
    /\ \E t \in Targets :
           /\ \E r \in {decode_word(codec, read_buffer, t[1], t[2])} :
                  /\ codec' = r.codec
                  /\ read_buffer' = r.src
                  /\ decoded' = r.ret
           /\ last' = Last("decode", t[2], NoFrame, NoMessage, t[1])
    /\ UNCHANGED <<writer, stream, encoded, header_call>>
    /\ UNCHANGED <<state, fragments_state, result, written, closeSent, received,
                   write_half, transport, handshake>>

NextWord ==
    \/ FeedWord
    \/ DecodeWord

SpecWord == InitWord /\ [][NextWord]_vars

(***************************************************************************)
(* The frame encoder on its own.                                           *)
(***************************************************************************)
InitEncode ==
    /\ Connected
    /\ codec \in {WebSocketCore_client, WebSocketCore_server}
    /\ CodecIdle

\* The codec that encodes: the write half's after a split.
Writer == IF writer = <<>> THEN codec ELSE writer[1]

\* Encoder<Frame>::encode is called with a destination of dst_len bytes.  The
\* encoder keeps nothing from one call to the next: one call is modelled.
Encode ==
    \E frame \in TxFrames :
    \E key \in Keys :
    \E dst_len \in DstLens :
        /\ encoded = NotEncoded
        /\ encoded' = Encoded(frame, key, dst_len,
                               encode_frame(Writer, frame, key, dst_len))
        /\ UNCHANGED <<codec, writer, stream, read_buffer, decoded, header_call>>
        /\ UNCHANGED connVars

NextEncode ==
    \/ Encode
    \/ SplitCodec

SpecEncode == InitEncode /\ [][NextEncode]_vars

(***************************************************************************)
(* Encoder and decoder together: the peer of the endpoint encodes a frame  *)
(* and the endpoint decodes the bytes as they arrive.                      *)
(***************************************************************************)
\* The codec of the endpoint at the other end of the connection.
Peer(c) == IF is_server(c) THEN WebSocketCore_client ELSE WebSocketCore_server

\* The frames the peer encodes: short ones of every kind, the longest control
\* frames, and frames one byte longer.
PeerFrames ==
    {Frame(fin, op, payload) :
        fin \in BOOLEAN,
        op \in {"Continuation", "Text", "Binary", "Close", "Ping", "Pong"},
        payload \in {<<>>, <<65>>, <<65, 195, 0, 255, 1>>}}
    \cup {Frame(TRUE, op, Pattern(MaxControlPayload)) : op \in {"Close", "Ping", "Pong"}}
    \cup {Frame(TRUE, op, LongPayload) : op \in {"Binary", "Ping"}}

\* The peer encodes a frame; what it wrote is the stream the endpoint reads.
PeerEncode ==
    /\ encoded = NotEncoded
    /\ \E frame \in PeerFrames :
       \E key \in Keys :
       \E dst_len \in DstLens :
       \E r \in {encode_frame(Peer(codec), frame, key, dst_len)} :
           /\ encoded' = Encoded(frame, key, dst_len, r)
           /\ stream' = r.bytes
    /\ UNCHANGED <<codec, writer, read_buffer, decoded, header_call>>
    /\ UNCHANGED connVars

\* The peer's bytes arrive in one read, or in two reads cut anywhere.
Arrive ==
    /\ decoded.kind # "Frame"
    /\ Len(read_buffer) < Len(stream)
    /\ \E k \in 1..Len(stream) :
           /\ read_buffer = <<>> \/ k = Len(stream)
           /\ read_buffer' = SubSeq(stream, 1, k)
    /\ UNCHANGED <<codec, writer, stream, decoded, encoded, header_call>>
    /\ UNCHANGED connVars

NextRoundTrip ==
    \/ PeerEncode
    \/ Arrive
    \/ Decode

SpecRoundTrip == InitEncode /\ [][NextRoundTrip]_vars

(***************************************************************************)
(* The payload length in the header: Header::write writes it, and the      *)
(* decoder reads it from frames that spell it in more bytes than needed.   *)
(***************************************************************************)
\* The payload lengths Header::write is given: both sides of each threshold,
\* and one that needs the upper bytes of the 8-byte field.
HeaderLens == {0, 1, 125, 126, 127, 65535, 65536, 16909060}

\* The destination holds the 2-byte header only, the 4-byte one, or any.
HeaderDstLens == {3, 4, 10}

\* Binary and Ping frames of 0 and 2 bytes with the length written inline, in
\* 2 bytes and in 8 bytes.
LengthStreams ==
    {WireFrame(b0, n, <<>>, key, Pattern(n)) :
        b0 \in {130, 137}, n \in {0, 2}, key \in Keys \cup {<<>>}}
    \cup {WireFrame(b0, 126, to_be(n, 2), key, Pattern(n)) :
        b0 \in {130, 137}, n \in {0, 2}, key \in Keys \cup {<<>>}}
    \cup {WireFrame(b0, 127, to_be(n, 8), key, Pattern(n)) :
        b0 \in {130, 137}, n \in {0, 2}, key \in Keys \cup {<<>>}}

InitLength ==
    /\ Connected
    /\ codec \in {WebSocketCore_client, WebSocketCore_server}
    /\ stream \in LengthStreams
    /\ writer = <<>>
    /\ read_buffer = <<>>
    /\ decoded = NotCalled
    /\ encoded = NotEncoded
    /\ header_call = NotWritten

\* Header::write is called for a payload of payload_len bytes.
WriteHeader ==
    /\ header_call = NotWritten
    /\ \E fin \in BOOLEAN :
       \E payload_len \in HeaderLens :
       \E dst_len \in HeaderDstLens :
           header_call' = Written(fin, "Binary", payload_len, dst_len,
                             Header_write(fin, "Binary", payload_len, dst_len))
    /\ UNCHANGED <<codec, writer, stream, read_buffer, decoded, encoded>>
    /\ UNCHANGED connVars

NextLength ==
    \/ WriteHeader
    \/ Feed
    \/ Decode

SpecLength == InitLength /\ [][NextLength]_vars

(***************************************************************************)
(* The sending side on its own: send_fragmented with messages of every     *)
(* length up to MaxMessageLen and fragment sizes up to MaxFragmentSize,    *)
(* and send, which may close the connection.                               *)
(***************************************************************************)
MaxMessageLen == 5

MaxFragmentSize == 6

\* Text and Binary messages of every length, and one of each other kind.
LongMessages ==
    {Text(Pattern(n)) : n \in 0..MaxMessageLen}
    \cup {Binary(Pattern(n)) : n \in 0..MaxMessageLen}
    \cup {Ping(<<65>>), Pong(<<65>>), Close(NoCloseFrame),
          Close(CloseFrame(from_u16(1000), <<65>>))}

\* send_fragmented is called; the transport accepts every frame or fails at
\* one of them.
FragmentMessage ==
    \E message \in LongMessages :
    \E size \in 0..MaxFragmentSize :
    \E accepted \in 0..Len(fragments(message, size).frames) :
    \E r \in {send_fragmented(state, message, size, accepted)} :
        /\ state' = r.state
        /\ result' = r.res
        /\ written' = r.written
        /\ closeSent' = (closeSent \/ HasClose(r.written))
        /\ last' = Last("send_fragmented", "None", NoFrame, message, size)
        /\ UNCHANGED <<fragments_state, received>>
        /\ UNCHANGED <<write_half, transport, handshake, codecVars>>

NextFragments ==
    \/ FragmentMessage
    \/ Send

SpecFragments == Init /\ [][NextFragments]_vars

(***************************************************************************)
(* The connection and its halves: split_with, next! on the read half, send *)
(* and send_fragmented on the write half.                                  *)
(***************************************************************************)
\* WebSocket::split_with, the read half starting with no message in progress
SplitWith_new_fragments ==
    /\ write_half = Unsplit
    /\ codec' = split(codec)[1]
    /\ writer' = <<split(codec)[2]>>
    /\ state' = ConnectionState_new
    /\ write_half' = WriteHalf(ConnectionState_new, state.closed)
    /\ fragments_state' = [fragments_state EXCEPT !.fragmented = NoFragmented]
    /\ result' = Ok
    /\ written' = <<>>
    /\ last' = Last("split_with", "None", NoFrame, NoMessage, 0)
    /\ UNCHANGED <<closeSent, received, transport, handshake>>
    /\ UNCHANGED <<stream, read_buffer, decoded, encoded, header_call>>

\* WebSocket::split_with: each half is built by new_from_framed with
\* ConnectionState::new(); the read half takes the codec's reader, the read
\* buffer and the fragments state.
SplitWith ==
    /\ write_half = Unsplit
    /\ codec' = split(codec)[1]
    /\ writer' = <<split(codec)[2]>>
    /\ state' = ConnectionState_new
    /\ write_half' = WriteHalf(ConnectionState_new, state.closed)
    /\ result' = Ok
    /\ written' = <<>>
    /\ last' = Last("split_with", "None", NoFrame, NoMessage, 0)
    /\ UNCHANGED <<fragments_state, closeSent, received, transport, handshake>>
    /\ UNCHANGED <<stream, read_buffer, decoded, encoded, header_call>>

\* One turn of next! on the read half.
ReadHalfNext ==
    /\ write_half # Unsplit
    /\ \E ev \in {"frame", "partial", "decode_err", "eof"} :
       \E frame \in (IF ev = "frame" THEN RxFrames ELSE {NoFrame}) :
       \E r \in {ReadCaller_call(state, fragments_state, ev, frame)} :
           /\ state' = r.state
           /\ fragments_state' = r.fs
           /\ result' = r.res
           /\ written' = r.written
           /\ closeSent' = (closeSent \/ HasClose(r.written))
           /\ last' = Last("next", ev, frame, NoMessage, 0)
           /\ received' = Receive(received, ev, frame)
    /\ UNCHANGED <<write_half, transport, handshake, codecVars>>

\* WebSocketWrite::send
WriteHalfSend ==
    /\ write_half # Unsplit
    /\ \E message \in SendMessages :
       \E io \in (IF write_half[1].state.closed THEN {TRUE} ELSE BOOLEAN) :
       \E r \in {send(write_half[1].state, message, io)} :
           /\ write_half' = WriteHalf(r.state, write_half[1].closed_before)
           /\ result' = r.res
           /\ written' = r.written
           /\ closeSent' = (closeSent \/ HasClose(r.written))
           /\ last' = Last("send", "None", NoFrame, message, 0)
    /\ UNCHANGED <<state, fragments_state, received, transport, handshake, codecVars>>

\* WebSocketWrite::send_fragmented
WriteHalfSendFragmented ==
    /\ write_half # Unsplit
    /\ \E message \in FragmentedMessages :
       \E size \in FragmentSizes :
       \E accepted \in 0..Len(fragments(message, size).frames) :
       \E r \in {send_fragmented(write_half[1].state, message, size, accepted)} :
           /\ write_half' = WriteHalf(r.state, write_half[1].closed_before)
           /\ result' = r.res
           /\ written' = r.written
           /\ closeSent' = (closeSent \/ HasClose(r.written))
           /\ last' = Last("send_fragmented", "None", NoFrame, message, size)
    /\ UNCHANGED <<state, fragments_state, received, transport, handshake, codecVars>>

\* split_with takes the connection by value: the unsplit connection's
\* operations are those of a connection that has not been split.
NextSplit ==
    \/ write_half = Unsplit /\ Next_call
    \/ write_half = Unsplit /\ Send
    \/ write_half = Unsplit /\ WithAutoPong
    \/ write_half = Unsplit /\ WithAutoClose
    \/ SplitWith
    \/ ReadHalfNext
    \/ WriteHalfSend
    \/ WriteHalfSendFragmented

SpecSplit == Init /\ [][NextSplit]_vars

(***************************************************************************)
(* The receiving side on a byte stream: the peer's frames arrive in        *)
(* pieces, decode runs on what is buffered and each turn of next! hands    *)
(* what was decoded to the caller of the connection or of its read half.   *)
(***************************************************************************)
\* The frame sequences the peer sends: messages whole and in fragments,
\* control frames between fragments, a Close with a 1-byte payload, a Ping
\* that is not final (which no decoder accepts).
PeerScripts ==
    LET T0 == Frame(FALSE, "Text", <<65>>)
        T1 == Frame(TRUE, "Text", <<65>>)
        C1 == Frame(TRUE, "Continuation", <<66>>)
        P == Frame(TRUE, "Ping", <<80>>)
        X == Frame(TRUE, "Close", <<3, 232>>)
        Xbad == Frame(TRUE, "Close", <<3>>)
        Bad == Frame(FALSE, "Ping", <<>>)
    IN {<<>>, <<T1>>, <<P>>, <<X>>, <<Xbad>>, <<Bad>>, <<T0, C1>>, <<T0, P, C1>>,
        <<P, T1>>, <<T0, X>>, <<P, Bad>>, <<T0, T1>>, <<X, T1>>, <<C1>>}

\* The bytes of a frame sequence as the peer of c encodes them.
RECURSIVE PeerBytes(_, _)
PeerBytes(c, frames) ==
    IF frames = <<>> THEN <<>>
    ELSE encode_frame(Peer(c), frames[1], <<17, 34, 51, 68>>, 140).bytes
         \o PeerBytes(c, Tail(frames))

InitWire ==
    /\ Connected
    /\ codec \in {WebSocketCore_client, WebSocketCore_server}
    /\ stream \in {PeerBytes(codec, frames) : frames \in PeerScripts}
    /\ writer = <<>>
    /\ read_buffer = <<>>
    /\ decoded = NotCalled
    /\ encoded = NotEncoded
    /\ header_call = NotWritten

\* caller().call: ReadAutoCaller for a WebSocket, ReadCaller for a
\* WebSocketRead.
Caller_call(st, fs, ev, frame, io) ==
    IF write_half = Unsplit THEN ReadAutoCaller_call(st, fs, ev, frame, io)
    ELSE ReadCaller_call(st, fs, ev, frame)

\* What maybe_next returns to a turn: the frame decode returned, decode's
\* error, end of stream once every byte has been read and decode finds no
\* frame in what is left, or Some(Ok(None)) when decode needs more bytes.
TurnEvents ==
    IF decoded.kind = "Frame" THEN {"frame"}
    ELSE IF decoded.kind = "Err" THEN {"decode_err"}
    ELSE IF decoded.kind = "None"
    THEN IF read_buffer = stream THEN {"partial", "eof"} ELSE {"partial"}
    ELSE {}

\* One turn of next!: the caller is handed what maybe_next returned; a
\* decoded frame leaves the read buffer.  At the end of the stream with part
\* of a frame buffered the turn ends the stream or fails.
Turn ==
    \E ev \in TurnEvents :
    \E frame \in {IF ev = "frame" THEN decoded.frame ELSE NoFrame} :
    \E io \in (IF write_half = Unsplit /\ Replies(state, ev, frame)
               THEN BOOLEAN ELSE {TRUE}) :
    \E kind \in (IF ev = "eof" /\ read_buffer # <<>>
                 THEN {"eof", "decode_err"} ELSE {ev}) :
    \E r \in {Caller_call(state, fragments_state, kind, frame, io)} :
        /\ state' = r.state
        /\ fragments_state' = r.fs
        /\ result' = r.res
        /\ written' = r.written
        /\ closeSent' = (closeSent \/ HasClose(r.written))
        /\ last' = Last("next", kind, frame, NoMessage, 0)
        /\ received' = Receive(received, kind, frame)
        /\ IF ev = "frame"
           THEN /\ stream' = SubSeq(stream, decoded.consumed + 1, Len(stream))
                /\ read_buffer' =
                       SubSeq(read_buffer, decoded.consumed + 1, Len(read_buffer))
                /\ decoded' = NotCalled
           ELSE UNCHANGED <<stream, read_buffer, decoded>>
        /\ UNCHANGED <<write_half, transport, handshake, codec, writer, encoded, header_call>>

NextWire ==
    \/ Feed
    \/ Decode
    \/ Turn
    \/ SplitWith
    \/ write_half = Unsplit /\ WithAutoPong
    \/ write_half = Unsplit /\ WithAutoClose

SpecWire == InitWire /\ [][NextWire]_vars

\* The transport delivers the bytes it holds, and the future of next! is
\* polled until it is ready: maybe_next decodes what has been read and the
\* loop of next! takes its next turn.
\* A call of decode would change the decoder or what it returned: ENABLED
\* <<Decode>>_vars, written out.
DecodeDue ==
    /\ decoded.kind # "Frame"
    /\ LET r == decode(codec, read_buffer)
       IN <<r.codec, r.src, r.ret>> # <<codec, read_buffer, decoded>>

\* The last conjunct is WF_vars(Decode) with its ENABLED written as DecodeDue.
SpecWireFair ==
    /\ InitWire
    /\ [][NextWire]_vars
    /\ WF_vars(Feed)
    /\ WF_vars(Turn)
    /\ ([]<>(~DecodeDue) \/ []<><<Decode>>_vars)

(***************************************************************************)
(* The transport of one connection.  send, send_fragmented and next! take  *)
(* the connection by `&mut self`, so a call has returned before the next   *)
(* one starts; `transport` keeps every frame a call wrote, in the order of *)
(* the writes, with the number of the call and what it was asked to do.    *)
(***************************************************************************)
\* The number of frames kept in the history.
MaxTransport == 4

OrderedSendMessages == {Text(<<65>>), Close(NoCloseFrame)}

OrderedFragmentedMessages == {Binary(<<65, 195, 0>>)}

OrderedFragmentSizes == {1, 2}

OrderedRxFrames ==
    {Frame(TRUE, "Ping", <<65>>), Frame(TRUE, "Text", <<65>>),
     Frame(TRUE, "Close", <<3, 232>>)}

NextCallNumber(t) == IF t = <<>> THEN 1 ELSE t[Len(t)].call + 1

\* The frames of one call are appended to the transport as they are written;
\* `part` tells how much of the frame reached the transport.
Record(t, request, frames) ==
    t \o [k \in 1..Len(frames) |->
            [call |-> NextCallNumber(t), request |-> request, frame |-> frames[k],
             part |-> "whole"]]

OrderedSend ==
    \E message \in OrderedSendMessages :
    \E io \in (IF state.closed THEN {TRUE} ELSE BOOLEAN) :
    \E r \in {send(state, message, io)} :
        /\ Len(transport) + Len(r.written) <= MaxTransport
        /\ state' = r.state
        /\ result' = r.res
        /\ written' = r.written
        /\ closeSent' = (closeSent \/ HasClose(r.written))
        /\ last' = Last("send", "None", NoFrame, message, 0)
        /\ transport' = Record(transport, last', r.written)
        /\ UNCHANGED <<fragments_state, received, write_half, handshake, codecVars>>

OrderedSendFragmented ==
    \E message \in OrderedFragmentedMessages :
    \E size \in OrderedFragmentSizes :
    \E accepted \in 0..Len(fragments(message, size).frames) :
    \E r \in {send_fragmented(state, message, size, accepted)} :
        /\ Len(transport) + Len(r.written) <= MaxTransport
        /\ state' = r.state
        /\ result' = r.res
        /\ written' = r.written
        /\ closeSent' = (closeSent \/ HasClose(r.written))
        /\ last' = Last("send_fragmented", "None", NoFrame, message, size)
        /\ transport' = Record(transport, last', r.written)
        /\ UNCHANGED <<fragments_state, received, write_half, handshake, codecVars>>

OrderedNext ==
    \E frame \in OrderedRxFrames :
    \E io \in (IF Replies(state, "frame", frame) THEN BOOLEAN ELSE {TRUE}) :
    \E r \in {ReadAutoCaller_call(state, fragments_state, "frame", frame, io)} :
        /\ Len(transport) + Len(r.written) <= MaxTransport
        /\ state' = r.state
        /\ fragments_state' = r.fs
        /\ result' = r.res
        /\ written' = r.written
        /\ closeSent' = (closeSent \/ HasClose(r.written))
        /\ last' = Last("next", "frame", frame, NoMessage, 0)
        /\ received' = Receive(received, "frame", frame)
        /\ transport' = Record(transport, last', r.written)
        /\ UNCHANGED <<write_half, handshake, codecVars>>

NextOrdered ==
    \/ OrderedSend
    \/ OrderedSendFragmented
    \/ OrderedNext

SpecOrdered == Init /\ [][NextOrdered]_vars

(***************************************************************************)
(* A turn of next! whose future is dropped while it is suspended in the    *)
(* write of the automatic reply (functions.rs:43).  The frame has been     *)
(* taken from the read buffer and state.closed has been assigned; the      *)
(* reply is a local of the dropped future.  The transport has taken none   *)
(* or some of the reply's bytes, not all of them.                          *)
(***************************************************************************)
Dropped == [kind |-> "Dropped", msg |-> NoMessage, err |-> "None"]

\* The reply of a dropped turn, as far as it was written.
RecordDropped(t, request, frame, part) ==
    t \o <<[call |-> NextCallNumber(t), request |-> request, frame |-> frame,
            part |-> part]>>

DroppedNext ==
    \E frame \in OrderedRxFrames :
    \E part \in {"none", "some"} :
        /\ Len(transport) < MaxTransport
        /\ Replies(state, "frame", frame)
        /\ state' = [state EXCEPT !.closed = is_close(auto(state, frame).message)]
        /\ result' = Dropped
        /\ written' = <<>>
        /\ last' = Last("next_dropped", "frame", frame, NoMessage, 0)
        /\ received' = Receive(received, "frame", frame)
        /\ transport' = RecordDropped(transport, last', encode(auto(state, frame).message),
                                      part)
        /\ UNCHANGED <<fragments_state, closeSent, write_half, handshake, codecVars>>

NextCancel ==
    \/ OrderedNext
    \/ DroppedNext
    \/ OrderedSend

SpecCancel == Init /\ [][NextCancel]_vars

(***************************************************************************)
(* WebSocket::connect_with and WebSocket::accept_with: the peer's HTTP     *)
(* message, the inspector's verdict and the outcome of the write are the   *)
(* inputs of one call.                                                     *)
(***************************************************************************)
\* Headers named upgrade: none, as expected in both cases, another protocol,
\* a value that is not UTF-8, and another protocol before the expected one.
UpgradeHeaders ==
    {<<>>,
     <<HttpHeader(upgrade, websocket)>>,
     <<HttpHeader(<<85, 112, 103, 114, 97, 100, 101>>, <<87, 101, 98, 83, 111, 99, 107, 101, 116>>)>>,
     <<HttpHeader(upgrade, <<104, 50, 99>>)>>,
     <<HttpHeader(upgrade, <<255>>)>>,
     <<HttpHeader(upgrade, <<104, 50, 99>>), HttpHeader(upgrade, websocket)>>}

ConnectionHeaders ==
    {<<>>,
     <<HttpHeader(connection, upgrade)>>,
     <<HttpHeader(<<67, 111, 110, 110, 101, 99, 116, 105, 111, 110>>, <<85, 112, 103, 114, 97, 100, 101>>)>>,
     <<HttpHeader(connection, <<99, 108, 111, 115, 101>>)>>}

\* Headers named sec-websocket-accept: none, the value of either key, and the
\* value of the first key in lower case.
AcceptHeaders ==
    {<<>>}
    \cup {<<HttpHeader(sec_websocket_accept, generate_sec_accept(k))>> : k \in SecKeys}
    \cup {<<HttpHeader(<<83, 101, 99, 45, 87, 101, 98, 83, 111, 99, 107, 101, 116, 45, 65, 99, 99, 101, 112, 116>>, generate_sec_accept(<<65, 81, 61, 61>>))>>,
          <<HttpHeader(sec_websocket_accept,
                       [i \in 1..6 |-> to_ascii_lowercase(generate_sec_accept(<<65, 81, 61, 61>>)[i])])>>}

ClientResponses ==
    {Response(1, code, u \o c \o a) :
        code \in {101, 200}, u \in UpgradeHeaders, c \in ConnectionHeaders,
        a \in AcceptHeaders}

VersionHeaders ==
    {<<>>,
     <<HttpHeader(sec_websocket_version, thirteen)>>,
     <<HttpHeader(<<83, 101, 99, 45, 87, 101, 98, 83, 111, 99, 107, 101, 116, 45, 86, 101, 114, 115, 105, 111, 110>>, thirteen)>>,
     <<HttpHeader(sec_websocket_version, <<49, 50>>)>>,
     <<HttpHeader(sec_websocket_version, <<255>>)>>}

KeyHeaders ==
    {<<>>}
    \cup {<<HttpHeader(sec_websocket_key, k)>> : k \in SecKeys}
    \cup {<<HttpHeader(<<83, 101, 99, 45, 87, 101, 98, 83, 111, 99, 107, 101, 116, 45, 75, 101, 121>>, <<65, 81, 61, 61>>)>>}

ServerRequests ==
    {Request(method, version, v \o k) :
        method \in {GET, POST, get}, version \in {0, 1}, v \in VersionHeaders,
        k \in KeyHeaders}

\* What framez::next! returns on an HTTP codec: a message, None at the end
\* of the stream, or an error of reading or parsing.
HttpEvents == {"message", "eof", "read_err"}

PendingClient ==
    {Handshake("pending", "client", "ok", "message", m, inspect, k, NoOutcome) :
        m \in ClientResponses, inspect \in BOOLEAN, k \in SecKeys}
    \cup {Handshake("pending", "client", wr, ev, NoHttp, TRUE, <<65, 81, 61, 61>>, NoOutcome) :
            wr \in WriteOutcomes, ev \in {"eof", "read_err"}}

PendingServer ==
    {Handshake("pending", "server", wr, "message", m, inspect, <<>>, NoOutcome) :
        wr \in WriteOutcomes, m \in ServerRequests, inspect \in BOOLEAN}
    \cup {Handshake("pending", "server", "ok", ev, NoHttp, TRUE, <<>>, NoOutcome) :
            ev \in {"eof", "read_err"}}

\* Framed::from_parts with a new read state: what was buffered is gone
from_parts_reset(buffered) == <<>>

\* Framed::from_parts(codec, inner, state) after the handshake: the read
\* state goes on as it is, with the bytes read after the HTTP message.
from_parts(buffered) == buffered

\* The connection before connect_with or accept_with is called: the peer's
\* HTTP message and the frames that follow it are on their way.
InitHandshake ==
    /\ Constructed
    /\ handshake \in PendingClient \cup PendingServer
    /\ codec = IF handshake.role = "client" THEN WebSocketCore_client
               ELSE WebSocketCore_server
    /\ stream = <<>>
    /\ writer = <<>>
    /\ read_buffer = <<>>
    /\ decoded = NotCalled
    /\ encoded = NotEncoded
    /\ header_call = NotWritten

\* The handshake returns: with a connection, whose read state holds the
\* `k` bytes that were read together with the HTTP message, or with an error.
Returns(r, op) ==
    /\ handshake' = [handshake EXCEPT !.phase = "done", !.outcome = r]
    /\ result' = r.res
    /\ state' = ConnectionState_new
    /\ written' = <<>>
    /\ \E k \in 0..(IF r.connected THEN Len(stream) ELSE 0) :
          /\ last' = Last(op, handshake.ev, NoFrame, NoMessage, k)
          /\ read_buffer' = from_parts(SubSeq(stream, 1, k))
          /\ stream' = SubSeq(stream, k - Len(read_buffer') + 1, Len(stream))
    /\ UNCHANGED <<fragments_state, closeSent, received, write_half, transport>>
    /\ UNCHANGED <<codec, writer, decoded, encoded, header_call>>

ClientHandshake ==
    /\ handshake.phase = "pending"
    /\ handshake.role = "client"
    /\ Returns(client_handshake(handshake.wr, handshake.ev, handshake.message,
                                handshake.inspect, handshake.sec_key), "connect")

ServerHandshake ==
    /\ handshake.phase = "pending"
    /\ handshake.role = "server"
    /\ Returns(server_handshake(handshake.wr, handshake.ev, handshake.message,
                                handshake.inspect), "accept")

NextHandshake ==
    \/ ClientHandshake
    \/ ServerHandshake

SpecHandshake == InitHandshake /\ [][NextHandshake]_vars

(***************************************************************************)
(* The handshake and the frames behind it: the peer's frames follow its    *)
(* HTTP message at once, any number of their bytes is read together with   *)
(* the message, and the connection the handshake returns is read from.     *)
(***************************************************************************)
\* WebSocket::framable
framable == Len(read_buffer)

\* The frames the peer sends right after its HTTP message.
CoalescedScripts ==
    LET X == Frame(TRUE, "Close", <<3, 232, 99, 108, 111, 115, 101>>)
        T1 == Frame(TRUE, "Text", <<65>>)
        P == Frame(TRUE, "Ping", <<80>>)
    IN {<<X>>, <<T1>>, <<P, T1>>, <<T1, X>>}

\* Handshakes that succeed, and one of each role that fails.
CoalescedHandshakes ==
    {h \in PendingClient :
        /\ h.ev = "message"
        /\ h.inspect
        /\ h.message \in
               {Response(1, 101, <<HttpHeader(upgrade, websocket),
                                   HttpHeader(connection, upgrade),
                                   HttpHeader(sec_websocket_accept,
                                              generate_sec_accept(h.sec_key))>>),
                Response(1, 200, <<>>)}}
    \cup {h \in PendingServer :
            /\ h.ev = "message"
            /\ h.inspect
            /\ h.wr = "ok"
            /\ h.message \in
                   {Request(GET, 1, <<HttpHeader(sec_websocket_version, thirteen),
                                      HttpHeader(sec_websocket_key, k)>>) :
                        k \in SecKeys}
                   \cup {Request(POST, 1, <<>>)}}

InitCoalesced ==
    /\ Constructed
    /\ handshake \in CoalescedHandshakes
    /\ codec = IF handshake.role = "client" THEN WebSocketCore_client
               ELSE WebSocketCore_server
    /\ stream \in {PeerBytes(codec, frames) : frames \in CoalescedScripts}
    /\ writer = <<>>
    /\ read_buffer = <<>>
    /\ decoded = NotCalled
    /\ encoded = NotEncoded
    /\ header_call = NotWritten

\* The handshake has returned a connection.
Upgraded == handshake.phase = "done" /\ handshake.outcome.connected

NextCoalesced ==
    \/ ClientHandshake
    \/ ServerHandshake
    \/ Upgraded /\ Feed
    \/ Upgraded /\ Decode
    \/ Upgraded /\ Turn

SpecCoalesced == InitCoalesced /\ [][NextCoalesced]_vars

(***************************************************************************)
(* Properties.                                                             *)
(***************************************************************************)
\* The step is a turn of next! that was handed the frame last'.frame.
NextOn(op) == last'.op = "next" /\ last'.ev = "frame" /\ last'.frame.opcode = op

\* A Close payload as RFC 6455 allows it: empty, or a code an endpoint may send
\* followed by a UTF-8 reason.
AllowedCode(n) ==
    \/ n >= 1000 /\ n <= 1003
    \/ n >= 1007 /\ n <= 1013
    \/ n >= 3000 /\ n <= 4999

WellFormedClose(p) ==
    \/ Len(p) = 0
    \/ /\ Len(p) >= 2
       /\ AllowedCode(p[1] * 256 + p[2])
       /\ from_utf8_ok(SubSeq(p, 3, Len(p)))

\* C1: once the closed flag is true, a Close having been written by send or by
\* the auto-responder, it stays true under every later send, send_fragmented
\* and next_message, whatever frames are received.
C1_ClosedStaysTrue == [][(state.closed /\ closeSent) => state'.closed]_vars

\* C2: after a Close frame has been written to the transport no further frame
\* is written, an automatic Pong included.
C2_NoWriteAfterClose == [][closeSent => written' = <<>>]_vars

\* C3: after next_message has processed a received Close frame (answered by
\* the auto-responder or surfaced as Message::Close) the closed flag is true.
C3_ClosedAfterReceivedClose ==
    (/\ last.op = "next"
     /\ last.frame.opcode = "Close"
     /\ result.kind \in {"Item", "Eos"}) => state.closed

\* C4: with auto-pong enabled a received Ping is never surfaced: the turn
\* writes exactly one Pong with the Ping's payload and reads on, or returns the
\* write error of the transport with nothing written.
C4_AutoPong ==
    [][(NextOn("Ping") /\ state.auto.pong) =>
          \/ /\ result' = Continue
             /\ written' = <<Frame(TRUE, "Pong", last'.frame.payload)>>
          \/ /\ result' = Err("WriteFrame")
             /\ written' = <<>>]_vars

C4_Witness ==
    /\ last.op = "next"
    /\ last.frame = Frame(TRUE, "Ping", <<65>>)
    /\ result = Continue
    /\ written = <<Frame(TRUE, "Pong", <<65>>)>>

\* C5: with auto-close enabled and closed false a received well-formed Close
\* is never surfaced: the turn sets closed, writes exactly one Close that
\* echoes the code and reason (1000 and no reason for an empty payload) and
\* returns end-of-stream, or returns the write error of the transport.
C5_AutoClose ==
    [][(/\ NextOn("Close")
        /\ state.auto.close
        /\ ~state.closed
        /\ WellFormedClose(last'.frame.payload)) =>
          /\ state'.closed
          /\ \/ /\ result' = Eos
                /\ written' =
                      <<Frame(TRUE, "Close",
                              IF last'.frame.payload = <<>> THEN <<3, 232>>
                              ELSE last'.frame.payload)>>
             \/ /\ result' = Err("WriteFrame")
                /\ written' = <<>>]_vars

C5_Witness ==
    /\ last.op = "next"
    /\ last.frame = Frame(TRUE, "Close", <<3, 232, 65>>)
    /\ result = Eos
    /\ state.closed
    /\ written = <<Frame(TRUE, "Close", <<3, 232, 65>>)>>

C7_NoMessageOnceClosed ==
    [][(state.closed /\ closeSent /\ last'.op = "next") =>
          result'.kind # "Item"]_vars

\* C8: a Text or Binary frame with fin=false received while a fragmented
\* message is in progress fails with InvalidFragment.
C8_NewFragmentInProgress ==
    [][(/\ NextOn("Text") \/ NextOn("Binary")
        /\ ~last'.frame.fin
        /\ fragments_state.fragmented.some) =>
          result' = Err("InvalidFragment")]_vars

\* C9: a Text or Binary frame with fin=true received while a fragmented
\* message is in progress fails with InvalidFragment; no message is surfaced.
C9_FinalDataInProgress ==
    [][(/\ NextOn("Text") \/ NextOn("Binary")
        /\ last'.frame.fin
        /\ fragments_state.fragmented.some) =>
          /\ result' = Err("InvalidFragment")
          /\ written' = <<>>]_vars

C9_Witness ==
    /\ last.op = "next"
    /\ last.frame.opcode = "Binary"
    /\ last.frame.fin
    /\ fragments_state.fragmented.some
    /\ fragments_state.fragmented.opcode = "Text"
    /\ result = Err("InvalidFragment")

\* C10: a Continuation frame, final or not, received while no fragmented
\* message is in progress fails with InvalidContinuationFrame and leaves the
\* fragments state none.
C10_ContinuationOfNothing ==
    [][(NextOn("Continuation") /\ ~fragments_state.fragmented.some) =>
          /\ result' = Err("InvalidContinuationFrame")
          /\ ~fragments_state'.fragmented.some]_vars

C10_Witness ==
    /\ last.op = "next"
    /\ last.frame.opcode = "Continuation"
    /\ ~last.frame.fin
    /\ ~fragments_state.fragmented.some
    /\ result = Err("InvalidContinuationFrame")

\* The UTF-8 encodings of the Unicode scalar values, by code point (RFC 3629).
IsScalar(s) ==
    LET t(i) == s[i] - 128
        tail(n) == \A i \in 2..n : s[i] >= 128 /\ s[i] <= 191
    IN CASE Len(s) = 1 -> s[1] <= 127
         [] Len(s) = 2 ->
                /\ s[1] >= 192 /\ s[1] <= 223 /\ tail(2)
                /\ (s[1] - 192) * 64 + t(2) >= 128
         [] Len(s) = 3 ->
                /\ s[1] >= 224 /\ s[1] <= 239 /\ tail(3)
                /\ LET cp == (s[1] - 224) * 4096 + t(2) * 64 + t(3)
                   IN cp >= 2048 /\ ~(cp >= 55296 /\ cp <= 57343)
         [] Len(s) = 4 ->
                /\ s[1] >= 240 /\ s[1] <= 247 /\ tail(4)
                /\ LET cp == (s[1] - 240) * 262144 + t(2) * 4096 + t(3) * 64 + t(4)
                   IN cp >= 65536 /\ cp <= 1114111
         [] OTHER -> FALSE

RECURSIVE WellFormedUtf8(_)
WellFormedUtf8(s) ==
    \/ s = <<>>
    \/ \E n \in 1..Min(4, Len(s)) :
           IsScalar(SubSeq(s, 1, n)) /\ WellFormedUtf8(SubSeq(s, n + 1, Len(s)))

\* The step is a turn of next! handed the final Continuation of the fragmented
\* message whose earlier fragments are `received`, and the whole fits the buffer.
FinalFragment ==
    /\ NextOn("Continuation")
    /\ last'.frame.fin
    /\ received.some
    /\ Len(received.bytes) + Len(last'.frame.payload) <= FragCap

Reassembled == received.bytes \o last'.frame.payload

ReassembledMessage ==
    IF received.opcode = "Text" THEN Text(Reassembled) ELSE Binary(Reassembled)

\* The steps of a fragmented message other than the final one: an accepted
\* fragment with fin=false surfaces nothing, and a control frame received
\* between the fragments leaves the fragments state alone.
FragmentsInOrder ==
    /\ (/\ NextOn("Text") \/ NextOn("Binary") \/ NextOn("Continuation")
        /\ received'.some
        /\ received' # received) =>
           /\ result' = Continue
           /\ fragments_state'.fragmented.some
    /\ (/\ NextOn("Ping") \/ NextOn("Pong") \/ NextOn("Close")
        /\ received.some) =>
           fragments_state' = fragments_state

\* C11 as stated: every fragment sequence that fits the fragments buffer
\* surfaces, at its final Continuation, one message of the first frame's type
\* whose payload is the concatenation of the fragments in order, control
\* frames between the fragments leave the fragments state alone, and afterwards
\* no fragmented message is in progress.
C11_Reassembly_Original ==
    [][/\ FragmentsInOrder
       /\ FinalFragment =>
              /\ result' = Item(ReassembledMessage)
              /\ ~fragments_state'.fragmented.some]_vars

\* C11: every fragment sequence that fits the fragments buffer surfaces, at
\* its final Continuation, one message of the first frame's type whose payload
\* is the concatenation of the fragments in order, after which no fragmented
\* message is in progress; unless the message is Text and the concatenation is
\* not valid UTF-8, when the final Continuation fails with InvalidUTF8.  Control
\* frames between the fragments leave the fragments state alone.
C11_Reassembly ==
    [][/\ FragmentsInOrder
       /\ FinalFragment =>
              IF received.opcode = "Text" /\ ~WellFormedUtf8(Reassembled)
              THEN result' = Err("InvalidUTF8")
              ELSE /\ result' = Item(ReassembledMessage)
                   /\ ~fragments_state'.fragmented.some]_vars

C11_Witness ==
    /\ last.op = "next"
    /\ last.frame = Frame(TRUE, "Continuation", <<169>>)
    /\ result = Item(Text(<<195, 169>>))
    /\ ~fragments_state.fragmented.some
    /\ ~received.some

\* The fragments state is that of a message in progress or of none: Text or
\* Binary with at most as many bytes as the buffer holds.
FragmentsStateOk ==
    LET f == fragments_state.fragmented
    IN IF f.some
       THEN /\ f.opcode \in {"Text", "Binary"}
            /\ f.index >= 0
            /\ f.index <= Len(fragments_state.fragments_buffer)
       ELSE f = NoFragmented

\* The step is a turn of next! handed a fragment that does not fit the buffer:
\* a first fragment longer than the buffer, or a Continuation longer than what
\* is left of it.
FragmentOverflows ==
    \/ /\ NextOn("Text") \/ NextOn("Binary")
       /\ ~last'.frame.fin
       /\ Len(last'.frame.payload) > Len(fragments_state.fragments_buffer)
    \/ /\ NextOn("Continuation")
       /\ fragments_state.fragmented.some
       /\ fragments_state.fragmented.index + Len(last'.frame.payload) >
              Len(fragments_state.fragments_buffer)

\* C12: while a fragmented message is in progress its opcode is Text or Binary
\* and its index is at most the length of the fragments buffer; a first
\* fragment or a Continuation that does not fit fails with
\* FragmentsBufferTooSmall and leaves the buffer, the opcode and the index as
\* they were.
C12_FragmentsBufferBound ==
    /\ []FragmentsStateOk
    /\ [][FragmentOverflows =>
             /\ result' = Err("FragmentsBufferTooSmall")
             /\ fragments_state' = fragments_state]_vars

C12_Witness ==
    /\ last.op = "next"
    /\ last.frame.opcode = "Continuation"
    /\ result = Err("FragmentsBufferTooSmall")
    /\ fragments_state.fragmented.some
    /\ fragments_state.fragmented.index = 1
    /\ fragments_state.fragmented.index + Len(last.frame.payload) >
           Len(fragments_state.fragments_buffer)

\* C13: every Text message surfaced has a payload that is valid UTF-8; the
\* payload of a fragmented Text message is validated once, when the final
\* fragment arrives: a fragment with fin=false is never refused as InvalidUTF8,
\* so fragments may split a multi-byte character.
C13_TextIsUtf8 ==
    /\ [](result.kind = "Item" /\ result.msg.type = "Text" =>
             WellFormedUtf8(result.msg.payload))
    /\ [][(/\ NextOn("Text") \/ NextOn("Binary") \/ NextOn("Continuation")
           /\ result' = Err("InvalidUTF8")) =>
             /\ last'.frame.fin
             /\ \/ last'.frame.opcode = "Text"
                \/ /\ last'.frame.opcode = "Continuation"
                   /\ fragments_state.fragmented.opcode = "Text"
                   /\ ~WellFormedUtf8(
                          SubSeq(fragments_state.fragments_buffer, 1,
                                 fragments_state.fragmented.index)
                          \o last'.frame.payload)]_vars

\* The two bytes of U+00E9 arrived in two fragments and were surfaced as Text.
C13_Witness ==
    /\ last.op = "next"
    /\ last.frame = Frame(TRUE, "Continuation", <<169>>)
    /\ result.kind = "Item"
    /\ result.msg.type = "Text"
    /\ result.msg.payload = <<195, 169>>
    /\ fragments_state.fragments_buffer = <<195, 169>>

\* The code and the reason of a Close payload of two bytes or more.
CloseCodeOf(p) == p[1] * 256 + p[2]

CloseReasonOf(p) == SubSeq(p, 3, Len(p))

C15_SentCloseCodeAllowed ==
    last.op = "send" =>
        \A i \in 1..Len(written) :
            (written[i].opcode = "Close" /\ Len(written[i].payload) >= 2) =>
                AllowedCode(CloseCodeOf(written[i].payload))

IsControl(op) == op \in {"Close", "Ping", "Pong"}

\* C16: every control frame written by send or by the auto-responder is final
\* and carries at most 125 bytes, whatever message the caller passes to send.
C16_SentControlFrames ==
    last.op \in {"send", "next"} =>
        \A i \in 1..Len(written) :
            IsControl(written[i].opcode) =>
                /\ written[i].fin
                /\ Len(written[i].payload) <= MaxControlPayload

(***************************************************************************)
(* The frame the stream starts with, read off its bytes.                   *)
(***************************************************************************)
WireFin == stream[1] >= 128

WireRsv == (stream[1] \div 16) % 8 # 0

WireOpcode == stream[1] % 16

WireOpcodeValid == WireOpcode \in {0, 1, 2, 8, 9, 10}

WireControl == WireOpcode \in {8, 9, 10}

WireMasked == stream[2] >= 128

WireLengthCode == IF WireMasked THEN stream[2] - 128 ELSE stream[2]

WireExtra == IF WireLengthCode = 126 THEN 2 ELSE IF WireLengthCode = 127 THEN 8 ELSE 0

WirePayloadLen ==
    IF WireExtra = 0 THEN WireLengthCode
    ELSE IF WireExtra = 2 THEN stream[3] * 256 + stream[4]
    ELSE stream[8] * 65536 + stream[9] * 256 + stream[10]

\* 2 + extended-length bytes + 4 if masked
WireHeaderLen == 2 + WireExtra + (IF WireMasked THEN 4 ELSE 0)

WireFrameLen == WireHeaderLen + WirePayloadLen

WireKey == SubSeq(stream, 3 + WireExtra, 6 + WireExtra)

WirePayload == SubSeq(stream, WireHeaderLen + 1, WireFrameLen)

\* The step is a call of decode that changed what decode returns or its state.
DecodeStep == <<decoded, codec>>' # <<decoded, codec>>

\* The mask bit is the one the decoder's role expects.
WireMaskExpected == WireMasked <=> is_server(codec)

EncodedHeaderLen(n) == IF n < 126 THEN 2 ELSE IF n < 65536 THEN 4 ELSE 10

\* C19: a frame a client encodes has the mask bit set, the 4-byte key right
\* after the length field and payload byte i XORed with key[i mod 4]; a frame
\* a server encodes has the mask bit clear and no key; the same holds of the
\* write half after a split.
C19_MaskOnEncode ==
    encoded.ret.ok =>
        LET bytes == encoded.ret.bytes
            payload == encoded.frame.payload
            n == Len(payload)
            h == EncodedHeaderLen(n)
        IN IF is_client(codec)
           THEN /\ Len(bytes) = h + 4 + n
                /\ bytes[2] >= 128
                /\ SubSeq(bytes, h + 1, h + 4) = encoded.key
                /\ \A i \in 1..n :
                       bytes[h + 4 + i] = xor(payload[i], encoded.key[((i - 1) % 4) + 1])
           ELSE /\ is_server(codec)
                /\ Len(bytes) = h + n
                /\ bytes[2] < 128
                /\ SubSeq(bytes, h + 1, h + n) = payload

\* The write half of a client encoded a frame of five bytes.
C19_Witness ==
    /\ writer # <<>>
    /\ is_client(codec)
    /\ encoded.ret.ok
    /\ Len(encoded.frame.payload) = 5
    /\ encoded.ret.bytes[2] = 128 + 5

\* What decode returns when it is called once, in state Init, on the bytes buffered.
OneShot(bytes) == decode([codec EXCEPT !.decode_state = DecodeInit], bytes)

\* C20: when the bytes of a frame arrive as any sequence of growing prefixes,
\* decode returns None on every prefix that does not hold the whole frame and,
\* on the first that does, the frame and the consumed count (2 + the
\* extended-length bytes + 4 if masked + the payload length) that decoding
\* that prefix in one call returns; the decode state is then Init.
C20_ResumableDecode ==
    [][(DecodeStep /\ OneShot(stream).ret.kind = "Frame") =>
          IF Len(read_buffer) < WireFrameLen
          THEN /\ decoded' = RetNone
               /\ read_buffer' = read_buffer
          ELSE /\ decoded' = OneShot(read_buffer).ret
               /\ read_buffer' = OneShot(read_buffer).src
               /\ decoded'.kind = "Frame"
               /\ decoded'.consumed = WireFrameLen
               /\ codec'.decode_state = DecodeInit]_vars

\* A masked frame was returned after decode had stopped in the middle of it,
\* with a byte of the next frame already buffered.
C20_Witness ==
    /\ decoded.kind = "Frame"
    /\ decoded.consumed = 8
    /\ Len(read_buffer) = 9
    /\ codec.decode_state = DecodeInit

\* The frame the peer encoded is one a decoder accepts: a data frame, or a
\* final control frame of at most 125 bytes.
Decodable(frame) ==
    frame.opcode \in {"Close", "Ping", "Pong"} =>
        frame.fin /\ Len(frame.payload) <= MaxControlPayload

\* C21: the bytes a client encodes decode at a server, and the bytes a server
\* encodes decode at a client, to a frame with the same fin, opcode and
\* payload and a consumed count equal to the number of bytes encoded, for
\* every data frame and every final control frame of at most 125 bytes.
C21_RoundTrip ==
    /\ [](decoded.kind = "Frame" =>
             /\ decoded.frame = encoded.frame
             /\ decoded.consumed = Len(encoded.ret.bytes))
    /\ [][(/\ DecodeStep
           /\ encoded.ret.ok
           /\ Decodable(encoded.frame)
           /\ read_buffer = stream) =>
             decoded' = RetFrame(encoded.frame, Len(stream))]_vars

\* A server decoded the longest Close a client can encode.
C21_Witness ==
    /\ is_server(codec)
    /\ encoded.ret.ok
    /\ decoded.kind = "Frame"
    /\ decoded.frame.opcode = "Close"
    /\ Len(decoded.frame.payload) = MaxControlPayload
    /\ decoded.consumed = 2 + 4 + MaxControlPayload

\* The stream's frame spells its payload length in more bytes than needed.
WireNonMinimal ==
    \/ WireLengthCode = 126 /\ WirePayloadLen < 126
    \/ WireLengthCode = 127 /\ WirePayloadLen < 65536

\* C22: for a payload of n bytes Header::write writes n inline when n < 126,
\* 126 and n in 2 big-endian bytes when 126 <= n < 65536, and 127 and n in 8
\* big-endian bytes otherwise; the decoder accepts a frame whose length is
\* spelled in more bytes than needed and returns a payload of that length.
C22_LengthEncoding ==
    /\ [](header_call.called /\ header_call.bytes # <<>> =>
             LET n == header_call.payload_len
                 b == header_call.bytes
             IN /\ n < 126 => Len(b) = 2 /\ b[2] = n
                /\ 126 <= n /\ n < 65536 =>
                       /\ Len(b) = 4
                       /\ b[2] = 126
                       /\ b[3] * 256 + b[4] = n
                /\ n >= 65536 =>
                       /\ Len(b) = 10
                       /\ b[2] = 127
                       /\ \A i \in 3..6 : b[i] = 0
                       /\ ((b[7] * 256 + b[8]) * 256 + b[9]) * 256 + b[10] = n)
    /\ [][(/\ DecodeStep
           /\ read_buffer = stream
           /\ WireMaskExpected
           /\ WireNonMinimal) =>
             /\ decoded'.kind = "Frame"
             /\ Len(decoded'.frame.payload) = WirePayloadLen
             /\ decoded'.consumed = WireFrameLen]_vars

\* A length of 65536 was written in 8 bytes, and a frame of 2 bytes with its
\* length in 8 bytes was decoded.
C22_Witness ==
    /\ header_call.called
    /\ header_call.payload_len = 65536
    /\ Len(header_call.bytes) = 10
    /\ decoded.kind = "Frame"
    /\ WireLengthCode = 127
    /\ Len(decoded.frame.payload) = 2

\* header length + 4 (if client) + payload length
EncodedLen(c, n) == EncodedHeaderLen(n) + (IF is_client(c) THEN 4 ELSE 0) + n

\* C23: encoding a frame into a destination of d bytes returns BufferTooSmall
\* exactly when d is smaller than header length + 4 (if client) + payload
\* length, and that total otherwise; every slice of the destination the code
\* indexes lies inside the destination.
C23_BufferTooSmall ==
    encoded # NotEncoded =>
        LET n == Len(encoded.frame.payload)
            d == encoded.dst_len
            slices == encode_inner_slices(Writer, n, d)
        IN /\ encoded.ret.err = "BufferTooSmall" <=> d < EncodedLen(Writer, n)
           /\ ~encoded.ret.ok <=> d < EncodedLen(Writer, n)
           /\ encoded.ret.ok => Len(encoded.ret.bytes) = EncodedLen(Writer, n)
           /\ \A i \in 1..Len(slices) :
                  /\ 0 <= slices[i][1]
                  /\ slices[i][1] <= slices[i][2]
                  /\ slices[i][2] <= d

\* A client encoded 126 bytes into a destination of 133 bytes, one too few.
C23_Witness ==
    /\ is_client(Writer)
    /\ Len(encoded.frame.payload) = MaxControlPayload + 1
    /\ encoded.dst_len = 133
    /\ encoded.ret.err = "BufferTooSmall"

\* The payloads of the frames, one after the other.
RECURSIVE Payloads(_)
Payloads(frames) ==
    IF frames = <<>> THEN <<>> ELSE frames[1].payload \o Payloads(Tail(frames))

\* ceil(l / k)
CeilDiv(l, k) == (l + k - 1) \div k

\* C24: a Text or Binary message of L bytes sent with fragment size K >= 1
\* goes out in max(1, ceil(L/K)) frames whose payloads, one after the other,
\* are the message's payload; the first frame has the message's opcode and
\* every later one is a Continuation; exactly the last frame is final; no
\* payload is longer than K.
C24_Fragments ==
    (/\ last.op = "send_fragmented"
     /\ last.message.type \in {"Text", "Binary"}
     /\ last.size >= 1
     /\ result = Ok) =>
        LET l == Len(last.message.payload)
            k == last.size
            n == Len(written)
        IN /\ n = (IF CeilDiv(l, k) > 1 THEN CeilDiv(l, k) ELSE 1)
           /\ Payloads(written) = last.message.payload
           /\ written[1].opcode = last.message.type
           /\ \A i \in 2..n : written[i].opcode = "Continuation"
           /\ \A i \in 1..n : written[i].fin <=> i = n
           /\ \A i \in 1..n : Len(written[i].payload) <= k

\* A message of five bytes went out in three frames of at most two bytes.
C24_Witness ==
    /\ last.op = "send_fragmented"
    /\ last.message = Binary(Pattern(5))
    /\ last.size = 2
    /\ result = Ok
    /\ Len(written) = 3
    /\ Len(written[3].payload) = 1

\* The step is a call of send_fragmented.
FragmentedCall == last'.op = "send_fragmented"

\* The call wrote nothing and left the connection state as it was.
NothingDone ==
    /\ written' = <<>>
    /\ state' = state
    /\ fragments_state' = fragments_state
    /\ closeSent' = closeSent

\* C25 as stated: send_fragmented with fragment size 0 fails
\* InvalidFragmentSize and with a Ping, Pong or Close fails CanNotBeFragmented,
\* writing nothing and leaving the connection state unchanged.
C25_FragmentationErrors_Original ==
    [][FragmentedCall =>
          /\ last'.size = 0 =>
                 result' = Err("InvalidFragmentSize") /\ NothingDone
          /\ (last'.size >= 1 /\ last'.message.type \in {"Ping", "Pong", "Close"}) =>
                 result' = Err("CanNotBeFragmented") /\ NothingDone]_vars

\* C25: on a connection that is not closed, send_fragmented with fragment size
\* 0 fails InvalidFragmentSize whatever the message, and with a fragment size
\* of at least 1 and a Ping, Pong or Close it fails CanNotBeFragmented; on a
\* closed connection it fails ConnectionClosed in both cases; in all of them
\* nothing is written and the connection state is unchanged.
C25_FragmentationErrors ==
    [][(/\ FragmentedCall
        /\ last'.size = 0 \/ last'.message.type \in {"Ping", "Pong", "Close"}) =>
          /\ NothingDone
          /\ result' = IF state.closed THEN Err("ConnectionClosed")
                       ELSE IF last'.size = 0 THEN Err("InvalidFragmentSize")
                       ELSE Err("CanNotBeFragmented")]_vars

\* A Ping was refused with fragment size 0 on an open connection.
C25_Witness ==
    /\ last.op = "send_fragmented"
    /\ last.size = 0
    /\ last.message.type = "Ping"
    /\ ~state.closed
    /\ result = Err("InvalidFragmentSize")

\* The step is a turn of next! on a Ping or a Close to which the
\* auto-responder does not apply: the flag is off, or this is a read half.
Unanswered(op) ==
    /\ NextOn(op)
    /\ \/ write_half # Unsplit
       \/ op = "Ping" /\ ~state.auto.pong
       \/ op = "Close" /\ ~state.auto.close

\* C26 as stated: when the auto-responder does not apply, next_message writes
\* nothing and surfaces the Ping or Close as a message.
C26_Unanswered_Original ==
    [][(Unanswered("Ping") \/ Unanswered("Close")) =>
          /\ written' = <<>>
          /\ result'.kind = "Item"
          /\ result'.msg.type = last'.frame.opcode]_vars

\* C26: when the auto-responder does not apply (auto-pong off for a Ping,
\* auto-close off for a Close, or a read half), next_message writes nothing;
\* it surfaces a Ping as Message::Ping with its payload and a well-formed
\* Close as Message::Close with its code and reason, and fails on a malformed
\* Close with InvalidCloseFrame, InvalidCloseCode or InvalidUTF8.
C26_Unanswered ==
    [][/\ Unanswered("Ping") =>
              /\ written' = <<>>
              /\ result' = Item(Ping(last'.frame.payload))
       /\ Unanswered("Close") =>
              /\ written' = <<>>
              /\ LET p == last'.frame.payload
                 IN IF WellFormedClose(p)
                    THEN /\ result'.kind = "Item"
                         /\ result'.msg.type = "Close"
                         /\ result'.msg.close.some = (Len(p) >= 2)
                         /\ Len(p) >= 2 =>
                               /\ into_u16(result'.msg.close.code) = p[1] * 256 + p[2]
                               /\ result'.msg.close.reason = SubSeq(p, 3, Len(p))
                    ELSE /\ result'.kind = "Err"
                         /\ result'.err \in {"InvalidCloseFrame", "InvalidCloseCode",
                                             "InvalidUTF8"}]_vars

\* A read half surfaced a Close with code 1000 and wrote nothing.
C26_Witness ==
    /\ write_half # Unsplit
    /\ last.op = "next"
    /\ last.frame = Frame(TRUE, "Close", <<3, 232, 65>>)
    /\ written = <<>>
    /\ result = Item(Close(CloseFrame(from_u16(1000), <<65>>)))

\* The step is a send or send_fragmented on the write half of a connection
\* that was closed when split_with was called.
WriteHalfCallAfterClose ==
    /\ write_half # Unsplit
    /\ write_half[1].closed_before
    /\ last'.op \in {"send", "send_fragmented"}

\* C27: send and send_fragmented on the write half fail with ConnectionClosed
\* if the connection's closed flag was true when split_with was called.
C27_WriteHalfClosed ==
    [][WriteHalfCallAfterClose => result' = Err("ConnectionClosed")]_vars

\* The connection with auto-pong and auto-close disabled.
AutoDisabled(st) == set_auto_close(set_auto_pong(st, FALSE), FALSE)

\* The step is a turn of next!.
TurnStep == last'.op = "next" /\ <<last, result, stream>>' # <<last, result, stream>>

\* C28: split_with leaves the codec's role and decode state, the bytes
\* buffered and the fragmented message in progress as they were, and every
\* turn of next! on the read half returns what the turn of the unsplit
\* connection with auto-pong and auto-close disabled returns on the same
\* input, writes nothing and leaves the same fragments state.
C28_SplitPreservesReceive ==
    /\ [][(write_half = Unsplit /\ write_half' # Unsplit) =>
             /\ is_client(codec') = is_client(codec)
             /\ is_server(codec') = is_server(codec)
             /\ codec'.decode_state = codec.decode_state
             /\ read_buffer' = read_buffer
             /\ stream' = stream
             /\ decoded' = decoded
             /\ fragments_state' = fragments_state]_vars
    /\ [][(write_half # Unsplit /\ TurnStep) =>
             \E u \in {ReadAutoCaller_call(AutoDisabled(state), fragments_state,
                                           last'.ev, last'.frame, TRUE)} :
                 /\ result' = u.res
                 /\ fragments_state' = u.fs
                 /\ written' = u.written
                 /\ written' = <<>>]_vars

\* The connection was split with a Text message in progress, the header of
\* the next frame decoded and its payload not yet read.
C28_Witness ==
    /\ last.op = "split_with"
    /\ write_half # Unsplit
    /\ fragments_state.fragmented.some
    /\ codec.decode_state.tag = "DecodedPayloadLength"
    /\ read_buffer # <<>>
    /\ Len(read_buffer) < Len(stream)
(***************************************************************************)
(* C29: the frames on the transport are in the order of the calls that     *)
(* wrote them: the calls' numbers never decrease along the transport, so   *)
(* no frame of a later call precedes a frame of an earlier one and the     *)
(* frames of one call are contiguous; the k-th frame of a send_fragmented  *)
(* call is the k-th fragment of its message; a send call wrote the one     *)
(* frame of its message; a turn of next! wrote one whole frame, the Pong   *)
(* with the payload of the Ping received or a Close.                       *)
(***************************************************************************)
\* The position of the i-th frame of the transport among its call's frames.
PositionInCall(i) ==
    Cardinality({j \in 1..i : transport[j].call = transport[i].call})

C29_WriteOrder ==
    \A i \in 1..Len(transport) :
        LET e == transport[i]
            k == PositionInCall(i)
        IN /\ i > 1 => transport[i - 1].call <= e.call
           /\ \A j \in 1..i : transport[j].call = e.call =>
                  /\ transport[j].request = e.request
                  /\ \A m \in j..i : transport[m].call = e.call
           /\ e.request.op \in {"send", "send_fragmented", "next"}
           /\ e.request.op = "send_fragmented" =>
                  LET f == fragments(e.request.message, e.request.size).frames
                  IN k <= Len(f) /\ e.frame = f[k]
           /\ e.request.op = "send" =>
                  k = 1 /\ e.frame = encode(e.request.message)
           /\ e.request.op = "next" =>
                  /\ k = 1
                  /\ e.frame.fin
                  /\ \/ /\ e.request.frame.opcode = "Ping"
                        /\ e.frame = Frame(TRUE, "Pong", e.request.frame.payload)
                     \/ /\ e.request.frame.opcode = "Close"
                        /\ e.frame.opcode = "Close"

\* Two fragments of one call, then the Pong of a turn of next!, then the
\* frame of a send.
C29_Witness ==
    /\ Len(transport) = 4
    /\ transport[1].request.op = "send_fragmented"
    /\ transport[2].call = transport[1].call
    /\ transport[2].frame.opcode = "Continuation"
    /\ transport[3].request.op = "next"
    /\ transport[3].frame.opcode = "Pong"
    /\ transport[4].request.op = "send"
    /\ transport[4].call > transport[3].call
(***************************************************************************)
(* C30: a turn of next! gives exactly one of: keep reading, a message, an  *)
(* error, the end of the stream.  The call keeps reading only when more    *)
(* bytes are needed, on a fragment that is not final and is accepted, and  *)
(* on a Ping that was answered; such a frame is never handed to the        *)
(* caller.  The end of the stream returns end-of-stream and a frame that   *)
(* does not decode returns an error in the same turn.  And a call that is  *)
(* reading returns once the transport delivers a frame that is neither a   *)
(* fragment that is not final nor a Ping.                                  *)
(***************************************************************************)
\* The fragment is not final and on_frame takes it into the message in
\* progress.
AcceptedFragment(fs, frame) ==
    /\ ~frame.fin
    /\ \/ /\ frame.opcode \in {"Text", "Binary"}
          /\ Len(frame.payload) <= FragCap
       \/ /\ frame.opcode = "Continuation"
          /\ fs.fragmented.some
          /\ fs.fragmented.index + Len(frame.payload) <= FragCap

AnsweredPing(frame, frames) ==
    /\ frame.opcode = "Ping"
    /\ frames = <<Frame(TRUE, "Pong", frame.payload)>>

OneOutcome(res) ==
    \/ res = Continue
    \/ res.kind = "Item" /\ res.msg # NoMessage /\ res.err = "None"
    \/ res.kind = "Err" /\ res.msg = NoMessage /\ res.err # "None"
    \/ res = Eos

\* The call of next! has returned.
Returned == last.op = "next" /\ result.kind \in {"Item", "Err", "Eos"}

\* What is left of the peer's frames once some of them have been received.
ScriptSuffixes ==
    {SubSeq(s, k, Len(s)) : k \in 1..3, s \in PeerScripts}

\* The frame is neither a fragment that is not final nor a Ping: it
\* completes a message, is a message of its own, or is not valid.
Completing(frame) ==
    IF frame.fin THEN frame.opcode # "Ping"
    ELSE frame.opcode \in {"Ping", "Pong", "Close"}

\* The bytes of the frames still to come when one of them makes the call
\* return, as the peer of a client and the peer of a server send them.
DeliveringStreams ==
    {PeerBytes(c, s) :
        c \in {WebSocketCore_client, WebSocketCore_server},
        s \in {t \in ScriptSuffixes : \E i \in 1..Len(t) : Completing(t[i])}}

Delivers == stream \in DeliveringStreams

C30_TurnOutcome ==
    [][TurnStep =>
        LET ev == last'.ev
            frame == last'.frame
            keeps == /\ ev = "frame"
                     /\ \/ AcceptedFragment(fragments_state, frame)
                        \/ AnsweredPing(frame, written')
        IN /\ OneOutcome(result')
           /\ keeps => result' = Continue
           /\ result' = Continue => ev = "partial" \/ keeps
           /\ ev = "eof" => result' = Eos
           /\ ev = "decode_err" => result'.kind = "Err"]_vars

C30_NextReturns ==
    /\ C30_TurnOutcome
    /\ (Delivers /\ ~Returned) ~> Returned

\* The call kept reading over a fragment and an answered Ping and returned
\* the message that the last fragment completed.
C30_Witness ==
    /\ last.op = "next"
    /\ last.frame = Frame(TRUE, "Continuation", <<66>>)
    /\ result = Item(Text(<<65, 66>>))
    /\ closeSent = FALSE
    /\ stream = <<>>
    /\ write_half = Unsplit
    /\ state.auto.pong
(***************************************************************************)
(* C31: after a turn of next! was dropped in the write of its automatic    *)
(* reply, a later call of next! that has returned finds the reply written  *)
(* whole, and no frame on the transport follows a frame that was written   *)
(* in part.                                                                *)
(***************************************************************************)
C31_RetryDeliversReply ==
    /\ Returned =>
           \A i \in 1..Len(transport) : transport[i].part = "whole"
    /\ \A i \in 1..Len(transport) :
           transport[i].part = "some" => i = Len(transport)
(***************************************************************************)
(* C32: connect returns a connection only if the response has the code     *)
(* 101, an upgrade header that is "websocket" and a connection header that *)
(* is "upgrade", names and values compared without case, and a             *)
(* sec-websocket-accept header equal byte for byte to the value derived    *)
(* from the key sent; otherwise it fails with the error of the first of    *)
(* these checks that fails, in the order InvalidStatusCode,                *)
(* MissingOrInvalidUpgrade, MissingOrInvalidConnection,                    *)
(* MissingOrInvalidAccept.                                                 *)
(***************************************************************************)
\* The value of the first header of that name, compared without case to the
\* name's lower-case form; the empty sequence stands for no such header.
FirstNamed(headers, name) ==
    LET found == {i \in 1..Len(headers) :
                     [j \in 1..Len(headers[i].name) |->
                         to_ascii_lowercase(headers[i].name[j])] = name}
    IN IF found = {} THEN <<>>
       ELSE headers[CHOOSE i \in found : \A j \in found : i <= j].value

Lowered(v) == [i \in 1..Len(v) |-> to_ascii_lowercase(v[i])]

\* The error the claim names for a response, "None" when every check passes.
ClientVerdict(response, sec_key) ==
    IF response.code # 101 THEN "InvalidStatusCode"
    ELSE IF Lowered(FirstNamed(response.headers, upgrade)) # websocket
    THEN "MissingOrInvalidUpgrade"
    ELSE IF Lowered(FirstNamed(response.headers, connection)) # upgrade
    THEN "MissingOrInvalidConnection"
    ELSE IF FirstNamed(response.headers, sec_websocket_accept)
                # generate_sec_accept(sec_key)
    THEN "MissingOrInvalidAccept"
    ELSE "None"

ClientDone == handshake.phase = "done" /\ handshake.role = "client"

\* As stated, of every call that parsed a message.
C32_ClientChecks_Original ==
    ClientDone /\ handshake.ev = "message" =>
        LET v == ClientVerdict(handshake.message, handshake.sec_key)
        IN /\ handshake.outcome.connected => v = "None"
           /\ v # "None" => result = Err(v)

\* When a response was parsed and the inspector returned a value.
C32_ClientChecks ==
    ClientDone /\ handshake.ev = "message" /\ handshake.inspect =>
        LET v == ClientVerdict(handshake.message, handshake.sec_key)
        IN /\ (handshake.outcome.connected <=> v = "None")
           /\ v = "None" => result = Ok
           /\ v # "None" => result = Err(v)

\* A response that passes with names and values in another case.
C32_Witness ==
    /\ ClientDone
    /\ handshake.inspect
    /\ result = Ok
    /\ handshake.message.headers[1].value # websocket
    /\ handshake.message.headers[3].name # sec_websocket_accept
(***************************************************************************)
(* C33: accept returns a connection only if the request's method is GET,   *)
(* its minor version is at least 1, its sec-websocket-version header is    *)
(* "13" and it has a sec-websocket-key header; otherwise it fails with the *)
(* error of the first of these checks that fails, in the order             *)
(* WrongHttpMethod, WrongHttpVersion, MissingOrInvalidSecVersion,          *)
(* MissingSecKey.                                                          *)
(***************************************************************************)
HasNamed(headers, name) ==
    \E i \in 1..Len(headers) : Lowered(headers[i].name) = name

\* The error the claim names for a request, "None" when every check passes.
ServerVerdict(request) ==
    IF request.method # GET THEN "WrongHttpMethod"
    ELSE IF ~(request.version >= 1) THEN "WrongHttpVersion"
    ELSE IF FirstNamed(request.headers, sec_websocket_version) # thirteen
    THEN "MissingOrInvalidSecVersion"
    ELSE IF ~HasNamed(request.headers, sec_websocket_key) THEN "MissingSecKey"
    ELSE "None"

ServerDone == handshake.phase = "done" /\ handshake.role = "server"

\* As stated, of every call that parsed a message.
C33_ServerChecks_Original ==
    ServerDone /\ handshake.ev = "message" =>
        LET v == ServerVerdict(handshake.message)
        IN /\ handshake.outcome.connected => v = "None"
           /\ v # "None" => result = Err(v)

\* When a request was parsed and the inspector returned a value; the
\* connection is returned when the response was written as well.
C33_ServerChecks ==
    ServerDone /\ handshake.ev = "message" /\ handshake.inspect =>
        LET v == ServerVerdict(handshake.message)
        IN /\ handshake.outcome.connected => v = "None"
           /\ v = "None" /\ handshake.wr = "ok" => result = Ok
           /\ v = "None" /\ handshake.wr # "ok" => result = Err("WriteHttp")
           /\ v # "None" => result = Err(v)

\* A request with the wrong method and the wrong version fails for its
\* method.
C33_Witness ==
    /\ ServerDone
    /\ handshake.inspect
    /\ handshake.message.method = POST
    /\ handshake.message.version = 0
    /\ result = Err("WrongHttpMethod")
(***************************************************************************)
(* C34: the handshake that parsed a message calls the inspector once, and  *)
(* before it validates the message: when the inspector returns an error    *)
(* the handshake fails with Other whether or not the message would pass,   *)
(* and the inspector's value is returned exactly when the connection is,   *)
(* which takes a message that passes the validation.                       *)
(***************************************************************************)
\* The error of the validation of the message, "None" when it passes.
Verdict ==
    IF handshake.role = "client"
    THEN ClientVerdict(handshake.message, handshake.sec_key)
    ELSE ServerVerdict(handshake.message)

C34_Inspector ==
    handshake.phase = "done" /\ handshake.ev = "message" =>
        /\ handshake.outcome.inspected = 1
        /\ ~handshake.inspect =>
               /\ result = Err("Other")
               /\ ~handshake.outcome.connected
               /\ ~handshake.outcome.custom
        /\ handshake.inspect =>
               /\ handshake.outcome.custom <=> handshake.outcome.connected
               /\ handshake.outcome.connected => Verdict = "None"

\* The inspector refuses a request that passes the validation.
C34_Witness ==
    /\ ServerDone
    /\ handshake.ev = "message"
    /\ ~handshake.inspect
    /\ Verdict = "None"
    /\ result = Err("Other")

C39_NothingWrittenOnFailure ==
    ServerDone =>
        /\ result.kind = "Err" /\ result.err # "WriteHttp" =>
               handshake.outcome.written = <<>>
        /\ handshake.outcome.written # <<>> =>
               /\ handshake.ev = "message"
               /\ handshake.inspect
               /\ ServerVerdict(handshake.message) = "None"
               /\ handshake.outcome.written[1].what = "response"
               /\ handshake.outcome.written[1].key =
                      generate_sec_accept(FirstNamed(handshake.message.headers,
                                                     sec_websocket_key))

\* A request without a key, with a transport that would take the response.
C39_Witness ==
    /\ ServerDone
    /\ handshake.wr = "ok"
    /\ result = Err("MissingSecKey")
    /\ handshake.outcome.written = <<>>

(***************************************************************************)
(* C36: whatever the 8 bytes of an extended length say, decode either      *)
(* fails PayloadTooLarge or computes the total length of the frame         *)
(* without overflowing usize: no call of decode panics, and the total kept *)
(* in the decode state is never below the payload length it contains.      *)
(***************************************************************************)
C36_LengthNeverOverflows ==
    last.op = "decode" =>
        /\ decoded.kind # "Panic"
        /\ codec.decode_state.tag = "DecodedPayloadLength" =>
               ~usize_lt(codec.decode_state.min_src_len,
                         codec.decode_state.payload_len)

(***************************************************************************)
(* C37: the closed flag becomes true only when a Close frame has been      *)
(* written or received: when send(Close), or the automatic Close reply of  *)
(* a turn of next!, fails to write, the closed flag keeps the value it had *)
(* before the call.                                                        *)
(***************************************************************************)
FailedCloseWrite ==
    /\ result' = Err("WriteFrame")
    /\ \/ last'.op = "send" /\ is_close(last'.message)
       \/ last'.op = "next" /\ last'.frame.opcode = "Close"

C37_FailedCloseKeepsFlag ==
    [][FailedCloseWrite => state'.closed = state.closed]_vars

(***************************************************************************)
(* C38: with auto-close enabled, a received Close frame that is malformed  *)
(* (a payload of one byte, a code that may not be sent, a reason that is   *)
(* not UTF-8) makes the turn of next! return the protocol error: no Close  *)
(* is written in reply and the closed flag is left as it was.              *)
(***************************************************************************)
MalformedCloseError(p) ==
    IF Len(p) = 1 THEN "InvalidCloseFrame"
    ELSE IF ~AllowedCode(p[1] * 256 + p[2]) THEN "InvalidCloseCode"
    ELSE "InvalidUTF8"

C38_MalformedCloseUnanswered ==
    [][(/\ NextOn("Close")
        /\ state.auto.close
        /\ ~WellFormedClose(last'.frame.payload)) =>
          /\ result' = Err(MalformedCloseError(last'.frame.payload))
          /\ written' = <<>>
          /\ closeSent' = closeSent
          /\ state' = state]_vars

\* A Close of one byte was received with auto-close on and closed false.
C38_Witness ==
    /\ last.op = "next"
    /\ last.frame = Frame(TRUE, "Close", <<3>>)
    /\ result = Err("InvalidCloseFrame")
    /\ state.auto.close
    /\ ~state.closed
    /\ written = <<>>
    /\ ~closeSent

(***************************************************************************)
(* C40: the bytes read together with the handshake message, behind its     *)
(* blank line, are kept when the HTTP codec is replaced by the frame       *)
(* codec: framable is their number when the handshake returns, they are    *)
(* the next bytes decode is given, and every frame a turn of next! is      *)
(* handed is a frame the peer sent, in the peer's order.                   *)
(***************************************************************************)
\* The peer's frames from the i-th on are what is left of the stream.
LeftOfScript(s, i) == stream = PeerBytes(codec, SubSeq(s, i, Len(s)))

====
